---------------------------- MODULE Spec2Model ----------------------------
(***************************************************************************)
(* Model of the snippet reconciliation engine of the Sublime assistant     *)
(* package (src/assistant/diff_view.py), of the code-block extractor that  *)
(* feeds it, and of the review protocol around it: Apply, preview, accept  *)
(* and reject (src/SublimeAssistant.py, src/assistant/diff_view.py).       *)
(*                                                                         *)
(* Text is a sequence of tokens.  A token is a run of characters of the    *)
(* Python string it stands for: "def", " ", "f", "():", "\n", ...  so a    *)
(* str is the concatenation of its tokens, a line is the token sequence    *)
(* of one line (terminator included when it is kept), and a list of lines  *)
(* is a sequence of such sequences.                                        *)
(***************************************************************************)
EXTENDS Integers, Sequences, FiniteSets, TLC

VARIABLES
    orig_lines,     \* _compute_proposed_file: orig_lines (list of lines)
    proposed_code,  \* _compute_proposed_file: proposed_code (str)
    hint_region,    \* _compute_proposed_file: hint_region, NoRegion or <<start, end>>
    new_lines,      \* the returned line list (<<>> before the call)
    full_proposed,  \* open_diff: ''.join(new_lines)
    diff_text,      \* open_diff: diff_text
    pc,             \* "start", "computed" (after _compute_proposed_file), "diffed" (after open_diff)
    views,          \* the open views: view id -> [window, file_name, name, content, diff_id]
    active,         \* window.active_view_in_group(0) of the chat window (NoView when none)
    files,          \* the regular files on disk: path -> content
    pending_blocks, \* SublimeAssistant._pending_blocks
    block_counter,  \* the next value of SublimeAssistant._block_counter
    pending,        \* diff_view._pending
    view_counter,   \* the last view id the editor has handed out
    errors,         \* number of sublime.error_message dialogs the last handler has shown
    last_op,        \* the handler that ran last and its outcome
    registered,     \* the diff ids that have been stored into _pending so far
    rejected,       \* the diff ids of the registered entries that reject has removed
    panel,          \* the text of the chat panel
    threads,        \* the worker threads of _submit_query: query -> [pc, reply, success]
    store,          \* history._store: window id -> list of messages
    timeouts,       \* the callbacks handed to sublime.set_timeout, oldest first
    actor,          \* the thread that took the last step: "ui" or "worker"
    url,            \* api.call: the local variable url
    headers,        \* api.call: the local variable headers
    current_messages, \* api.call: current_messages
    rounds,         \* api.call: rounds
    requests,       \* the HTTP requests _do_request has sent: <<url, headers>>, oldest first
    response,       \* api.call: the response of the last request (result, ok)
    returned,       \* what api.call has returned or raised (<<>> while it runs)
    on_tool_call    \* api.call: whether the caller passed an on_tool_call callback

merge_vars == <<orig_lines, proposed_code, hint_region, new_lines, full_proposed, diff_text, pc>>

review_vars == <<views, active, files, pending_blocks, block_counter, pending,
                 view_counter, errors, last_op, registered, rejected>>

chat_vars == <<panel, threads, store, timeouts, actor>>

call_vars == <<url, headers, current_messages, rounds, requests, response, returned,
               on_tool_call>>

vars == <<merge_vars, review_vars, chat_vars, call_vars>>

\* Python's None where the code expects a match (no name) or a (start, end) tuple
NoName == <<>>
NoRegion == <<>>

\* None where the code expects a view id (view ids are positive)
NoView == 0

\* An optional str (str | None) is <<>> for None and <<s>> for the str s, so that
\* the empty str differs from None
None == <<>>
Some(s) == <<s>>

-----------------------------------------------------------------------------
(* Bounds of the model                                                     *)

MaxOrigLen == 3
MaxSnippetLen == 2

-----------------------------------------------------------------------------
(* Python helpers                                                          *)

Min(x, y) == IF x < y THEN x ELSE y

\* s[i:j] of a Python list or str, for 0 <= i, 0 <= j (out-of-range indices clamp)
PySlice(s, i, j) == SubSeq(s, Min(i, Len(s)) + 1, Min(j, Len(s)))

\* ''.join(lines)
RECURSIVE Join(_)
Join(lines) ==
    IF lines = <<>> THEN <<>> ELSE Head(lines) \o Join(Tail(lines))

\* index (1-based) of the first "\n" of text at or after position p, 0 when there is none
RECURSIVE FirstNewline(_, _)
FirstNewline(text, p) ==
    IF p > Len(text) THEN 0
    ELSE IF text[p] = "\n" THEN p
    ELSE FirstNewline(text, p + 1)

\* str.splitlines(keepends): one line per terminator, and a last line without
\* one when the text does not end in a terminator; no line for the empty text
RECURSIVE Splitlines(_, _)
Splitlines(text, keepends) ==
    IF text = <<>> THEN <<>>
    ELSE LET k == FirstNewline(text, 1)
         IN  IF k = 0 THEN <<text>>
             ELSE <<SubSeq(text, 1, IF keepends THEN k ELSE k - 1)>>
                  \o Splitlines(SubSeq(text, k + 1, Len(text)), keepends)

\* \s of the regular expressions
IsSpace(t) == t \in {" ", "    ", "\n"}

\* a token made of \w characters only
IsWord(t) == t \in {"def", "class", "async", "f", "g", "C"}

\* number of characters of a whitespace token
Width(t) == IF t = "    " THEN 4 ELSE 1

\* position of the first token of text at or after p that is not whitespace
RECURSIVE SkipSpace(_, _)
SkipSpace(text, p) ==
    IF p <= Len(text) /\ IsSpace(text[p]) THEN SkipSpace(text, p + 1) ELSE p

\* str.lstrip()
Lstrip(line) == SubSeq(line, SkipSpace(line, 1), Len(line))

\* str.strip() is empty
IsBlank(line) == SkipSpace(line, 1) > Len(line)

\* len(line) - len(line.lstrip()), in characters
RECURSIVE WidthSum(_)
WidthSum(toks) == IF toks = <<>> THEN 0 ELSE Width(Head(toks)) + WidthSum(Tail(toks))

Indent(line) == WidthSum(SubSeq(line, 1, SkipSpace(line, 1) - 1))

\* (?:async\s+)? matched at p: the position after it
AfterAsync(text, p) ==
    IF p + 1 <= Len(text) /\ text[p] = "async" /\ IsSpace(text[p + 1])
    THEN SkipSpace(text, p + 1)
    ELSE p

\* (?:async\s+)?(?:def|class)\s matched at p (re.match at diff_view.py:108)
StartsDefAt(text, p) ==
    LET q == AfterAsync(text, p)
    IN  /\ q + 1 <= Len(text)
        /\ text[q] \in {"def", "class"}
        /\ IsSpace(text[q + 1])

\* position of the first token of text at or after p that is not a \w token
RECURSIVE SkipWord(_, _)
SkipWord(text, p) ==
    IF p <= Len(text) /\ IsWord(text[p]) THEN SkipWord(text, p + 1) ELSE p

\* (?:async\s+)?(?:def|class)\s+(\w+) matched at p: the captured name (the
\* longest run of \w tokens), or NoName when there is no match
DefNameAt(text, p) ==
    IF ~StartsDefAt(text, p) THEN NoName
    ELSE LET n == SkipSpace(text, AfterAsync(text, p) + 1)
         IN  SubSeq(text, n, SkipWord(text, n) - 1)

\* (?:async\s+)?(?:def|class)\s+<name>\b matched at the start of text
MatchesDefOf(text, name) ==
    /\ StartsDefAt(text, 1)
    /\ LET n == SkipSpace(text, AfterAsync(text, 1) + 1)
       IN  /\ SubSeq(text, n, n + Len(name) - 1) = name
           /\ (n + Len(name) > Len(text) \/ ~IsWord(text[n + Len(name)]))

\* _DEF_RE.search(snippet): ^ with re.MULTILINE matches at the start of the
\* text and right after each "\n" only; the leftmost match wins
RECURSIVE DefReSearch(_, _)
DefReSearch(text, p) ==
    IF p > Len(text) THEN NoName
    ELSE IF (p = 1 \/ text[p - 1] = "\n") /\ DefNameAt(text, p) # NoName
         THEN DefNameAt(text, p)
         ELSE DefReSearch(text, p + 1)

-----------------------------------------------------------------------------
(* difflib.SequenceMatcher(None, a, b, autojunk=False)                      *)
(* No junk and no popular elements: b2j indexes every element of b.         *)
(* Indices are Python's (0-based, half-open); a[i] is a[i + 1] here.        *)

\* j2len[j] when a[i] = b[j]: the length of the common run that ends at (i, j)
\* and lies within a[alo:], b[blo:]
RECURSIVE RunLen(_, _, _, _, _, _)
RunLen(a, b, alo, blo, i, j) ==
    IF i > alo /\ j > blo /\ a[i] = b[j]
    THEN 1 + RunLen(a, b, alo, blo, i - 1, j - 1)
    ELSE 1

\* the pairs (i, j) of equal elements inside the window (the j of b2j[a[i]]
\* that the inner loop does not skip)
EqualPairs(a, b, w) ==
    {p \in (w.alo .. w.ahi - 1) \X (w.blo .. w.bhi - 1) : a[p[1] + 1] = b[p[2] + 1]}

\* the element of a one-element set
Only(S) == CHOOSE x \in S : TRUE

\* best_i, best_j, best_size after the two nested loops, given the runs
\* <<i, j, j2len[j]>> of the window: the pairs are visited with i ascending
\* and, for each i, j ascending, and best is replaced only by a strictly
\* longer run; so the result is the longest run, and among the longest the
\* one whose end comes first in that order
BestRun(runs, w) ==
    IF runs = {} THEN <<w.alo, w.blo, 0>>
    ELSE Only({<<e[1] - e[3] + 1, e[2] - e[3] + 1, e[3]>> :
                  e \in {x \in runs :
                            \A y \in runs :
                               \/ y[3] < x[3]
                               \/ /\ y[3] = x[3]
                                  /\ (x[1] < y[1] \/ (x[1] = y[1] /\ x[2] <= y[2]))}})

\* the two nested loops of find_longest_match
LongestScan(a, b, w) ==
    Only({BestRun(runs, w) :
             runs \in {{<<p[1], p[2], RunLen(a, b, w.alo, w.blo, p[1], p[2])>> :
                           p \in EqualPairs(a, b, w)}}})

\* first while loop after the scan: extend the match backwards
RECURSIVE ExtendBack(_, _, _, _)
ExtendBack(a, b, w, m) ==
    IF m[1] > w.alo /\ m[2] > w.blo /\ a[m[1]] = b[m[2]]
    THEN ExtendBack(a, b, w, <<m[1] - 1, m[2] - 1, m[3] + 1>>)
    ELSE m

\* second while loop: extend the match forwards
RECURSIVE ExtendFwd(_, _, _, _)
ExtendFwd(a, b, w, m) ==
    IF m[1] + m[3] < w.ahi /\ m[2] + m[3] < w.bhi /\ a[m[1] + m[3] + 1] = b[m[2] + m[3] + 1]
    THEN ExtendFwd(a, b, w, <<m[1], m[2], m[3] + 1>>)
    ELSE m

\* find_longest_match(alo, ahi, blo, bhi) -> <<i, j, k>>
FindLongestMatch(a, b, alo, ahi, blo, bhi) ==
    LET w == [alo |-> alo, ahi |-> ahi, blo |-> blo, bhi |-> bhi]
    IN  ExtendFwd(a, b, w, ExtendBack(a, b, w, LongestScan(a, b, w)))

\* the queue loop of get_matching_blocks followed by matching_blocks.sort():
\* the blocks left of a match sort before it, the blocks right of it after it
RECURSIVE MatchingBlocksIn(_, _, _, _, _, _)
MatchingBlocksIn(a, b, alo, ahi, blo, bhi) ==
    LET x == FindLongestMatch(a, b, alo, ahi, blo, bhi)
        i == x[1]
        j == x[2]
        k == x[3]
    IN  IF k = 0 THEN <<>>
        ELSE (IF alo < i /\ blo < j THEN MatchingBlocksIn(a, b, alo, i, blo, j) ELSE <<>>)
             \o <<x>>
             \o (IF i + k < ahi /\ j + k < bhi
                 THEN MatchingBlocksIn(a, b, i + k, ahi, j + k, bhi) ELSE <<>>)

\* the collapsing loop of get_matching_blocks: adjacent equal blocks are merged
RECURSIVE CollapseAdjacent(_, _)
CollapseAdjacent(blocks, cur) ==
    IF blocks = <<>> THEN (IF cur[3] > 0 THEN <<cur>> ELSE <<>>)
    ELSE LET nx == Head(blocks)
         IN  IF cur[1] + cur[3] = nx[1] /\ cur[2] + cur[3] = nx[2]
             THEN CollapseAdjacent(Tail(blocks), <<cur[1], cur[2], cur[3] + nx[3]>>)
             ELSE (IF cur[3] > 0 THEN <<cur>> ELSE <<>>) \o CollapseAdjacent(Tail(blocks), nx)

\* get_matching_blocks(): the blocks and the sentinel (la, lb, 0)
GetMatchingBlocks(a, b) ==
    CollapseAdjacent(MatchingBlocksIn(a, b, 0, Len(a), 0, Len(b)), <<0, 0, 0>>)
    \o <<<<Len(a), Len(b), 0>>>>

Opcode(tag, i1, i2, j1, j2) == [tag |-> tag, i1 |-> i1, i2 |-> i2, j1 |-> j1, j2 |-> j2]

\* the loop of get_opcodes over the matching blocks, from position (i, j)
RECURSIVE OpcodesFrom(_, _, _)
OpcodesFrom(blocks, i, j) ==
    IF blocks = <<>> THEN <<>>
    ELSE LET ai == Head(blocks)[1]
             bj == Head(blocks)[2]
             size == Head(blocks)[3]
             tag == IF i < ai /\ j < bj THEN "replace"
                    ELSE IF i < ai THEN "delete"
                    ELSE IF j < bj THEN "insert"
                    ELSE ""
         IN  (IF tag # "" THEN <<Opcode(tag, i, ai, j, bj)>> ELSE <<>>)
             \o (IF size > 0 THEN <<Opcode("equal", ai, ai + size, bj, bj + size)>> ELSE <<>>)
             \o OpcodesFrom(Tail(blocks), ai + size, bj + size)

\* get_opcodes()
GetOpcodes(a, b) == OpcodesFrom(GetMatchingBlocks(a, b), 0, 0)

-----------------------------------------------------------------------------
(* src/assistant/diff_view.py                                               *)

\* first loop of _merge_snippet: the original index at which the last
\* non-delete opcode ends (0 when there is none)
RECURSIVE LastNonDeleteOrigEnd(_, _)
LastNonDeleteOrigEnd(opcodes, last) ==
    IF opcodes = <<>> THEN last
    ELSE LastNonDeleteOrigEnd(Tail(opcodes),
                              IF Head(opcodes).tag # "delete" THEN Head(opcodes).i2 ELSE last)

\* variants of the test below: a strict comparison, no test at all, and no
\* restoring at all
KeepsDeleteStrict(op, last_non_delete_orig_end) == op.i1 > last_non_delete_orig_end

KeepsDeleteAlways(op, last_non_delete_orig_end) == TRUE

KeepsDeleteNever(op, last_non_delete_orig_end) == FALSE

\* the test that keeps a delete opcode (diff_view.py:73)
KeepsDelete(op, last_non_delete_orig_end) == op.i1 >= last_non_delete_orig_end

\* a variant of the second loop that keeps the original lines a replace covers
MergeOpcodeKeepsReplaced(op, orig, snippet_lines, last_non_delete_orig_end) ==
    IF op.tag = "equal" THEN PySlice(orig, op.i1, op.i2)
    ELSE IF op.tag = "insert" THEN PySlice(snippet_lines, op.j1, op.j2)
    ELSE IF op.tag = "replace"
         THEN PySlice(orig, op.i1, op.i2) \o PySlice(snippet_lines, op.j1, op.j2)
    ELSE IF op.i1 >= last_non_delete_orig_end THEN PySlice(orig, op.i1, op.i2)
    ELSE <<>>

\* what one opcode appends to result in the second loop of _merge_snippet
MergeOpcode(op, orig, snippet_lines, last_non_delete_orig_end) ==
    IF op.tag = "equal" THEN PySlice(orig, op.i1, op.i2)
    ELSE IF op.tag \in {"replace", "insert"} THEN PySlice(snippet_lines, op.j1, op.j2)
    ELSE IF KeepsDelete(op, last_non_delete_orig_end) THEN PySlice(orig, op.i1, op.i2)
    ELSE <<>>

RECURSIVE MergeOpcodes(_, _, _, _)
MergeOpcodes(opcodes, orig, snippet_lines, last) ==
    IF opcodes = <<>> THEN <<>>
    ELSE MergeOpcode(Head(opcodes), orig, snippet_lines, last)
         \o MergeOpcodes(Tail(opcodes), orig, snippet_lines, last)

\* _merge_snippet(orig_lines, snippet_lines)
MergeSnippet(orig, snippet_lines) ==
    LET opcodes == GetOpcodes(orig, snippet_lines)
    IN  MergeOpcodes(opcodes, orig, snippet_lines, LastNonDeleteOrigEnd(opcodes, 0))

\* first loop of _find_snippet_region: index of the first line, at or after i,
\* whose stripped text starts the definition of name; -1 when there is none
RECURSIVE FindDefLine(_, _, _)
FindDefLine(lines, name, i) ==
    IF i >= Len(lines) THEN -1
    ELSE IF MatchesDefOf(Lstrip(lines[i + 1]), name) THEN i
    ELSE FindDefLine(lines, name, i + 1)

\* variant of the loop below that ends the region only at a shallower definition
RECURSIVE FindRegionEndStrict(_, _, _)
FindRegionEndStrict(lines, indent, i) ==
    IF i >= Len(lines) THEN Len(lines)
    ELSE IF IsBlank(lines[i + 1]) THEN FindRegionEndStrict(lines, indent, i + 1)
    ELSE IF Indent(lines[i + 1]) < indent /\ StartsDefAt(Lstrip(lines[i + 1]), 1) THEN i
    ELSE FindRegionEndStrict(lines, indent, i + 1)

\* second loop of _find_snippet_region: index of the first non-blank line, at or
\* after i, indented no deeper than indent and starting a definition; else n
RECURSIVE FindRegionEnd(_, _, _)
FindRegionEnd(lines, indent, i) ==
    IF i >= Len(lines) THEN Len(lines)
    ELSE IF IsBlank(lines[i + 1]) THEN FindRegionEnd(lines, indent, i + 1)
    ELSE IF Indent(lines[i + 1]) <= indent /\ StartsDefAt(Lstrip(lines[i + 1]), 1) THEN i
    ELSE FindRegionEnd(lines, indent, i + 1)

\* _find_snippet_region(original, snippet) -> <<start, end>> or NoRegion
FindSnippetRegion(original, snippet) ==
    LET name == DefReSearch(snippet, 1)
        lines == Splitlines(original, FALSE)
    IN  IF name = NoName THEN NoRegion
        ELSE LET start == FindDefLine(lines, name, 0)
             IN  IF start < 0 THEN NoRegion
                 ELSE <<start, FindRegionEnd(lines, Indent(lines[start + 1]), start + 1)>>

\* variant of the test below without the factor
ShorterOrEqual(snippet_lines, lines) == Len(snippet_lines) <= Len(lines)

\* len(snippet_lines) < len(orig_lines) * 0.85 (diff_view.py:128)
ShorterThanOriginal(snippet_lines, lines) == 100 * Len(snippet_lines) < 85 * Len(lines)

\* variant of the splice below that resumes one line late
SpliceOffByOne(lines, start, end, merged) ==
    PySlice(lines, 0, start) \o merged \o PySlice(lines, end + 1, Len(lines))

\* orig_lines[:start] + merged + orig_lines[end:]
Splice(lines, start, end, merged) ==
    PySlice(lines, 0, start) \o merged \o PySlice(lines, end, Len(lines))

\* _compute_proposed_file(orig_lines, proposed_code, hint_region)
ComputeProposedFile(lines, code, hint) ==
    LET snippet_lines == Splitlines(code, TRUE)
    IN  IF hint # NoRegion
        THEN Splice(lines, hint[1], hint[2],
                    MergeSnippet(PySlice(lines, hint[1], hint[2]), snippet_lines))
        ELSE LET region == IF ShorterThanOriginal(snippet_lines, lines)
                           THEN FindSnippetRegion(Join(lines), code)
                           ELSE NoRegion
             IN  IF region # NoRegion
                 THEN Splice(lines, region[1], region[2],
                             MergeSnippet(PySlice(lines, region[1], region[2]), snippet_lines))
                 ELSE snippet_lines

-----------------------------------------------------------------------------
(* difflib.unified_diff(a, b, fromfile, tofile, n)                          *)
(* Its SequenceMatcher keeps autojunk on, which changes nothing below 200   *)
(* lines of b.                                                              *)

Max(x, y) == IF x > y THEN x ELSE y

\* get_grouped_opcodes: the trimming of a leading and of a trailing equal opcode
TrimFirst(codes, n) ==
    LET c == codes[1]
    IN  IF c.tag = "equal"
        THEN <<Opcode(c.tag, Max(c.i1, c.i2 - n), c.i2, Max(c.j1, c.j2 - n), c.j2)>> \o Tail(codes)
        ELSE codes

TrimLast(codes, n) ==
    LET c == codes[Len(codes)]
    IN  IF c.tag = "equal"
        THEN SubSeq(codes, 1, Len(codes) - 1)
             \o <<Opcode(c.tag, c.i1, Min(c.i2, c.i1 + n), c.j1, Min(c.j2, c.j1 + n))>>
        ELSE codes

\* variant of the loop below that also yields a group of one equal opcode
RECURSIVE GroupLoopUnfiltered(_, _, _)
GroupLoopUnfiltered(codes, n, group) ==
    IF codes = <<>>
    THEN IF group # <<>> THEN <<group>> ELSE <<>>
    ELSE LET c == Head(codes)
         IN  IF c.tag = "equal" /\ c.i2 - c.i1 > n + n
             THEN <<Append(group, Opcode(c.tag, c.i1, Min(c.i2, c.i1 + n), c.j1, Min(c.j2, c.j1 + n)))>>
                  \o GroupLoopUnfiltered(Tail(codes), n,
                               <<Opcode(c.tag, Max(c.i1, c.i2 - n), c.i2, Max(c.j1, c.j2 - n), c.j2)>>)
             ELSE GroupLoopUnfiltered(Tail(codes), n, Append(group, c))

\* get_grouped_opcodes: the loop that cuts the opcodes into groups at every
\* equal opcode longer than 2n, then the final yield
RECURSIVE GroupLoop(_, _, _)
GroupLoop(codes, n, group) ==
    IF codes = <<>>
    THEN IF group # <<>> /\ ~(Len(group) = 1 /\ group[1].tag = "equal") THEN <<group>> ELSE <<>>
    ELSE LET c == Head(codes)
         IN  IF c.tag = "equal" /\ c.i2 - c.i1 > n + n
             THEN <<Append(group, Opcode(c.tag, c.i1, Min(c.i2, c.i1 + n), c.j1, Min(c.j2, c.j1 + n)))>>
                  \o GroupLoop(Tail(codes), n,
                               <<Opcode(c.tag, Max(c.i1, c.i2 - n), c.i2, Max(c.j1, c.j2 - n), c.j2)>>)
             ELSE GroupLoop(Tail(codes), n, Append(group, c))

\* get_grouped_opcodes(n)
GetGroupedOpcodes(a, b, n) ==
    LET codes == GetOpcodes(a, b)
        codes1 == IF codes = <<>> THEN <<Opcode("equal", 0, 1, 0, 1)>> ELSE codes
    IN  GroupLoop(TrimLast(TrimFirst(codes1, n), n), n, <<>>)

\* _format_range_unified(start, stop)
FormatRangeUnified(start, stop) ==
    LET length == stop - start
    IN  IF length = 1 THEN <<ToString(start + 1)>>
        ELSE <<ToString(IF length = 0 THEN start ELSE start + 1), ",", ToString(length)>>

\* prefix + line, for each line of lines
RECURSIVE Prefixed(_, _)
Prefixed(prefix, lines) ==
    IF lines = <<>> THEN <<>>
    ELSE <<<<prefix>> \o Head(lines)>> \o Prefixed(prefix, Tail(lines))

\* the lines unified_diff yields for one opcode of a group
DiffOpcodeLines(op, a, b) ==
    IF op.tag = "equal" THEN Prefixed(" ", PySlice(a, op.i1, op.i2))
    ELSE (IF op.tag \in {"replace", "delete"} THEN Prefixed("-", PySlice(a, op.i1, op.i2)) ELSE <<>>)
         \o (IF op.tag \in {"replace", "insert"} THEN Prefixed("+", PySlice(b, op.j1, op.j2)) ELSE <<>>)

RECURSIVE DiffGroupLines(_, _, _)
DiffGroupLines(group, a, b) ==
    IF group = <<>> THEN <<>>
    ELSE DiffOpcodeLines(Head(group), a, b) \o DiffGroupLines(Tail(group), a, b)

\* the hunk header and the lines of every group
RECURSIVE DiffHunks(_, _, _)
DiffHunks(groups, a, b) ==
    IF groups = <<>> THEN <<>>
    ELSE LET g == Head(groups)
         IN  <<<<"@@ -">> \o FormatRangeUnified(g[1].i1, g[Len(g)].i2)
               \o <<" +">> \o FormatRangeUnified(g[1].j1, g[Len(g)].j2) \o <<" @@", "\n">>>>
             \o DiffGroupLines(g, a, b)
             \o DiffHunks(Tail(groups), a, b)

\* list(difflib.unified_diff(a, b, fromfile=f"a/{filename}", tofile=f"b/{filename}", n=n))
UnifiedDiff(a, b, filename, n) ==
    LET groups == GetGroupedOpcodes(a, b, n)
    IN  IF groups = <<>> THEN <<>>
        ELSE << <<"--- ", "a/">> \o filename \o <<"\n">>,
                <<"+++ ", "b/">> \o filename \o <<"\n">> >>
             \o DiffHunks(groups, a, b)

\* '(No differences)\n'
NoDifferences == <<"(No differences)", "\n">>

\* an open_diff that registers the raw snippet (_DiffEntry(target, proposed_code, None))
OpenDiffTextsRawSnippet(original, filename, code, hint) ==
    LET lines == Splitlines(original, TRUE)
        proposed == ComputeProposedFile(lines, code, hint)
        diff_lines == UnifiedDiff(lines, proposed, filename, 3)
    IN  [new_lines |-> proposed,
         full_proposed |-> code,
         diff_text |-> IF diff_lines # <<>> THEN Join(diff_lines) ELSE NoDifferences]

\* open_diff, lines 148-161: the diff text and the proposed content for a target
\* view that holds the text original and is called filename
OpenDiffTexts(original, filename, code, hint) ==
    Only({Only({Only({[new_lines |-> proposed,
                       full_proposed |-> Join(proposed),
                       diff_text |-> IF diff_lines # <<>> THEN Join(diff_lines)
                                     ELSE NoDifferences] :
                         diff_lines \in {UnifiedDiff(lines, proposed, filename, 3)}}) :
                   proposed \in {ComputeProposedFile(lines, code, hint)}}) :
             lines \in {Splitlines(original, TRUE)}})

\* open_diff on a view without file name and without name (filename "file")
PrepareDiff(original, code, hint) == OpenDiffTexts(original, <<"file">>, code, hint)

-----------------------------------------------------------------------------
(* Inputs                                                                   *)

\* the lines of the example of the specification, as token sequences
DefF   == <<"def", " ", "f", "():", "\n">>
DefG   == <<"def", " ", "g", "():", "\n">>
Ret1   == <<"    ", "return 1", "\n">>
Ret2   == <<"    ", "return 2", "\n">>
Extra  == <<"    ", "# extra", "\n">>
Blank  == <<"\n">>
\* a method: the definition of f one level deep
MethF  == <<"    ", "def", " ", "f", "():", "\n">>

\* the lists of at most n lines drawn from alphabet
RECURSIVE LineLists(_, _)
LineLists(alphabet, n) ==
    IF n = 0 THEN {<<>>}
    ELSE LET shorter == LineLists(alphabet, n - 1)
         IN  shorter \cup {Append(l, x) : l \in {s \in shorter : Len(s) = n - 1}, x \in alphabet}

\* a line list whose last line has lost its terminator (as the content of a
\* fence whose closing ``` follows the code on the same line)
Unterminated(lines) ==
    IF lines = <<>> \/ Len(lines[Len(lines)]) < 2 THEN lines
    ELSE SubSeq(lines, 1, Len(lines) - 1)
         \o <<SubSeq(lines[Len(lines)], 1, Len(lines[Len(lines)]) - 1)>>

\* the texts of the line lists, with and without the last terminator
Texts(lists) == {Join(l) : l \in lists} \cup {Join(Unterminated(l)) : l \in lists}

ExampleOrig == <<DefF, Ret1, Blank, DefG, Ret2>>
ExampleSnippet == <<DefF, Ret1, Extra>>

\* with a hint the engine only compares lines, so three distinct lines give
\* every alignment of the bounded lengths
HintedOriginals == LineLists({DefF, Ret1, Blank}, MaxOrigLen)
HintedSnippets == Texts(LineLists({DefF, Ret1, Blank}, MaxSnippetLen))

\* without a hint the definitions, their names and their indentation matter
DetectOriginals == LineLists({DefF, DefG, Ret1, Blank, MethF}, MaxOrigLen) \cup {ExampleOrig}
DetectSnippets == Texts(LineLists({DefF, Ret1, MethF}, MaxSnippetLen) \cup {ExampleSnippet})

\* files whose last line has no line terminator, and whole-file replacements
\* proposed for them
UnterminatedOriginals ==
    {Unterminated(<<DefF, Ret1>>), Unterminated(<<DefG, Ret2, DefF, Ret1>>)}

UnterminatedSnippets == {Join(<<DefF, Ret2>>), Join(<<DefF, Ret1, Extra>>)}

\* the half-open ranges [start, end) within lines
HintRegions(lines) == {r \in (0 .. Len(lines)) \X (0 .. Len(lines)) : r[1] <= r[2]}

-----------------------------------------------------------------------------
(* The engine as a state machine: the inputs are chosen, then either        *)
(* _compute_proposed_file or the diff preparation of open_diff is applied.  *)

\* no query has been submitted
ChatIdle ==
    /\ panel = <<>>
    /\ threads = <<>>
    /\ store = <<>>
    /\ timeouts = <<>>
    /\ actor = "ui"

\* api.call is not running
CallIdle ==
    /\ url = <<>>
    /\ headers = <<>>
    /\ current_messages = <<>>
    /\ rounds = 0
    /\ requests = <<>>
    /\ response = <<>>
    /\ returned = <<>>
    /\ on_tool_call = FALSE

\* the review protocol at rest: no view, no reply, nothing registered
ReviewIdle ==
    /\ views = <<>>
    /\ active = NoView
    /\ files = <<>>
    /\ pending_blocks = <<>>
    /\ block_counter = 0
    /\ pending = <<>>
    /\ view_counter = 0
    /\ errors = 0
    /\ last_op = [name |-> "idle", result |-> "none"]
    /\ registered = {}
    /\ rejected = {}

InitMerge ==
    /\ ReviewIdle
    /\ ChatIdle
    /\ CallIdle
    /\ \/ /\ orig_lines \in HintedOriginals
          /\ proposed_code \in HintedSnippets
          /\ hint_region \in HintRegions(orig_lines)
       \/ /\ orig_lines \in DetectOriginals
          /\ proposed_code \in DetectSnippets
          /\ hint_region = NoRegion
       \/ /\ orig_lines \in UnterminatedOriginals
          /\ proposed_code \in UnterminatedSnippets
          /\ hint_region = NoRegion
    /\ new_lines = <<>>
    /\ full_proposed = <<>>
    /\ diff_text = <<>>
    /\ pc = "start"

CallComputeProposedFile ==
    /\ pc = "start"
    /\ new_lines' = ComputeProposedFile(orig_lines, proposed_code, hint_region)
    /\ pc' = "computed"
    /\ UNCHANGED <<orig_lines, proposed_code, hint_region, full_proposed, diff_text>>
    /\ UNCHANGED <<review_vars, chat_vars, call_vars>>

CallPrepareDiff ==
    /\ pc = "start"
    /\ LET r == PrepareDiff(Join(orig_lines), proposed_code, hint_region)
       IN  /\ new_lines' = r.new_lines
           /\ full_proposed' = r.full_proposed
           /\ diff_text' = r.diff_text
    /\ pc' = "diffed"
    /\ UNCHANGED <<orig_lines, proposed_code, hint_region>>
    /\ UNCHANGED <<review_vars, chat_vars, call_vars>>

NextMerge == CallComputeProposedFile \/ CallPrepareDiff

SpecMerge == InitMerge /\ [][NextMerge]_vars

-----------------------------------------------------------------------------
(* Vocabulary of the properties                                             *)

\* _compute_proposed_file has returned into new_lines
Called == pc \in {"computed", "diffed"}

\* the snippet as the line list the engine works on
SnippetLines == Splitlines(proposed_code, TRUE)

Hinted == hint_region # NoRegion

\* line k (0-based) of the original starts a definition of name
DefinesName(k, name) == MatchesDefOf(Lstrip(orig_lines[k + 1]), name)

\* the name the engine takes from the snippet
SnippetName == DefReSearch(proposed_code, 1)

\* the snippet has fewer lines than 85% of the original's
BelowThreshold == 100 * Len(SnippetLines) < 85 * Len(orig_lines)

\* the region the call has merged into: the hint, else the detected region
\* (NoRegion when the call was a full-file replacement)
MergedRegion ==
    IF Hinted THEN hint_region
    ELSE IF BelowThreshold THEN FindSnippetRegion(Join(orig_lines), proposed_code)
    ELSE NoRegion

RegionLines == PySlice(orig_lines, MergedRegion[1], MergedRegion[2])

RegionOpcodes == GetOpcodes(RegionLines, SnippetLines)

\* the part of the result between the untouched prefix and suffix
MergedPart ==
    SubSeq(new_lines, MergedRegion[1] + 1,
           Len(new_lines) - (Len(orig_lines) - MergedRegion[2]))

\* opcode k of ops is a delete that some non-delete opcode follows
InteriorDelete(ops, k) ==
    /\ ops[k].tag = "delete"
    /\ \E m \in (k + 1) .. Len(ops) : ops[m].tag # "delete"

\* the original lines of a final delete opcode, <<>> when the last opcode is no delete
FinalDeleteLines(ops, lines) ==
    IF ops # <<>> /\ ops[Len(ops)].tag = "delete"
    THEN PySlice(lines, ops[Len(ops)].i1, ops[Len(ops)].i2)
    ELSE <<>>

\* line k of the original is non-blank, indented no deeper than line d, and
\* starts a definition
RegionEndLine(k, d) ==
    /\ ~IsBlank(orig_lines[k + 1])
    /\ Indent(orig_lines[k + 1]) <= Indent(orig_lines[d + 1])
    /\ StartsDefAt(Lstrip(orig_lines[k + 1]), 1)

\* p is a non-empty proper prefix of q
ProperPrefix(p, q) == p # <<>> /\ Len(p) < Len(q) /\ SubSeq(q, 1, Len(p)) = p

\* the last lines of the result, as many as the original has from index from on
ResultTail(from) ==
    SubSeq(new_lines, Len(new_lines) - (Len(orig_lines) - from) + 1, Len(new_lines))

-----------------------------------------------------------------------------
(* C1. With no hint, for the example original (f, its body, a blank line,   *)
(* g, its body) and the example snippet (f with one more body line) the     *)
(* engine returns f merged, then the blank line, then g untouched.          *)
C1_ExampleKeepsBlankAndG ==
    (/\ pc = "computed"
     /\ orig_lines = ExampleOrig
     /\ proposed_code = Join(ExampleSnippet)
     /\ hint_region = NoRegion)
    => new_lines = <<DefF, Ret1, Extra, Blank, DefG, Ret2>>

(* C2. Trailing truncation is restored: with a hint range and a snippet     *)
(* that is a non-empty proper prefix of the hinted lines, the result is the *)
(* original unchanged.                                                      *)
C2_TrailingTruncationRestored ==
    (/\ Called
     /\ Hinted
     /\ ProperPrefix(SnippetLines, PySlice(orig_lines, hint_region[1], hint_region[2])))
    => new_lines = orig_lines

C2_Witness ==
    /\ pc = "computed"
    /\ Hinted
    /\ hint_region[1] > 0
    /\ ProperPrefix(SnippetLines, PySlice(orig_lines, hint_region[1], hint_region[2]))
    /\ new_lines = orig_lines

(* C3. Interior deletions are honoured: when the alignment of the merged    *)
(* region holds a delete opcode followed by a non-delete opcode, that       *)
(* opcode emits nothing, and the merged part is the snippet's lines         *)
(* followed only by the lines of a final delete opcode, if there is one.    *)
C3_InteriorDeletionsDropped ==
    (/\ Called
     /\ MergedRegion # NoRegion
     /\ \E k \in 1 .. Len(RegionOpcodes) : InteriorDelete(RegionOpcodes, k))
    => /\ \A k \in 1 .. Len(RegionOpcodes) :
            InteriorDelete(RegionOpcodes, k)
            => MergeOpcode(RegionOpcodes[k], RegionLines, SnippetLines,
                           LastNonDeleteOrigEnd(RegionOpcodes, 0)) = <<>>
       /\ MergedPart = SnippetLines \o FinalDeleteLines(RegionOpcodes, RegionLines)

C3_Witness ==
    /\ pc = "computed"
    /\ MergedRegion # NoRegion
    /\ \E k \in 1 .. Len(RegionOpcodes) : InteriorDelete(RegionOpcodes, k)
    /\ Len(new_lines) < Len(orig_lines)

(* C4 as stated. If the snippet equals the original exactly then, for every *)
(* hint range or none, the result is the original and the diff text is the  *)
(* 'no differences' sentinel.                                               *)
C4_IdempotentForEveryHint ==
    (Called /\ proposed_code = Join(orig_lines))
    => /\ new_lines = orig_lines
       /\ pc = "diffed" => diff_text = NoDifferences

(* C4 amended. If the snippet equals the original exactly and the hint      *)
(* range is absent or covers the whole file, the result is the original     *)
(* and the diff text is the 'no differences' sentinel.                      *)
C4_IdempotentWholeFile ==
    (/\ Called
     /\ proposed_code = Join(orig_lines)
     /\ hint_region \in {NoRegion, <<0, Len(orig_lines)>>})
    => /\ new_lines = orig_lines
       /\ pc = "diffed" => diff_text = NoDifferences /\ full_proposed = Join(orig_lines)

C4_Witness ==
    /\ pc = "diffed"
    /\ Len(orig_lines) >= 2
    /\ proposed_code = Join(orig_lines)
    /\ hint_region = NoRegion
    /\ new_lines = orig_lines
    /\ diff_text = NoDifferences

(* C5. With a hint range [start, end) the result begins with the original   *)
(* lines before start and ends with the original lines from end on.         *)
C5_HintFrame ==
    (Called /\ Hinted)
    => /\ Len(new_lines) >= hint_region[1] + (Len(orig_lines) - hint_region[2])
       /\ SubSeq(new_lines, 1, hint_region[1]) = SubSeq(orig_lines, 1, hint_region[1])
       /\ ResultTail(hint_region[2]) = SubSeq(orig_lines, hint_region[2] + 1, Len(orig_lines))

C5_Witness ==
    /\ pc = "computed"
    /\ Hinted
    /\ hint_region[1] > 0
    /\ hint_region[1] < hint_region[2]
    /\ hint_region[2] < Len(orig_lines)
    /\ new_lines # orig_lines
    /\ SubSeq(new_lines, 1, hint_region[1]) = SubSeq(orig_lines, 1, hint_region[1])

(* C6. The engine drops no line terminator: every line of the result other  *)
(* than the last ends with a line terminator.                               *)
C6_NoDroppedTerminator ==
    Called
    => \A k \in 1 .. (Len(new_lines) - 1) : new_lines[k][Len(new_lines[k])] = "\n"

(* C7. With no hint the result is exactly the snippet's lines whenever the  *)
(* snippet has at least 85% of the original's line count, or the engine     *)
(* finds no definition name in the snippet, or no line of the original      *)
(* defines that name.                                                       *)
C7_FullFileReplacement ==
    (/\ Called
     /\ ~Hinted
     /\ \/ 100 * Len(SnippetLines) >= 85 * Len(orig_lines)
        \/ SnippetName = NoName
        \/ \A k \in 0 .. (Len(orig_lines) - 1) : ~DefinesName(k, SnippetName))
    => new_lines = SnippetLines

C7_Witness ==
    /\ pc = "computed"
    /\ ~Hinted
    /\ BelowThreshold
    /\ SnippetName # NoName
    /\ \A k \in 0 .. (Len(orig_lines) - 1) : ~DefinesName(k, SnippetName)
    /\ \E k \in 1 .. Len(orig_lines) : StartsDefAt(Lstrip(orig_lines[k]), 1)
    /\ new_lines = SnippetLines

(* C8. Definition detection works at any indentation: with no hint and a    *)
(* snippet below the threshold whose first line is an indented definition   *)
(* of a name the original defines too, the merge is restricted to the       *)
(* region of that definition in the original.                               *)
C8_IndentedDefinitionDetected ==
    (/\ Called
     /\ ~Hinted
     /\ BelowThreshold
     /\ SnippetLines # <<>>
     /\ Indent(SnippetLines[1]) > 0
     /\ DefNameAt(Lstrip(SnippetLines[1]), 1) # NoName
     /\ \E k \in 0 .. (Len(orig_lines) - 1) :
            DefinesName(k, DefNameAt(Lstrip(SnippetLines[1]), 1)))
    => LET name == DefNameAt(Lstrip(SnippetLines[1]), 1)
           d == CHOOSE k \in 0 .. (Len(orig_lines) - 1) :
                    /\ DefinesName(k, name)
                    /\ \A i \in 0 .. (k - 1) : ~DefinesName(i, name)
           e == CHOOSE k \in (d + 1) .. Len(orig_lines) :
                    /\ k = Len(orig_lines) \/ RegionEndLine(k, d)
                    /\ \A i \in (d + 1) .. (k - 1) : ~RegionEndLine(i, d)
       IN  /\ Len(new_lines) >= d + (Len(orig_lines) - e)
           /\ SubSeq(new_lines, 1, d) = SubSeq(orig_lines, 1, d)
           /\ ResultTail(e) = SubSeq(orig_lines, e + 1, Len(orig_lines))

(* C9. In the detected-region case the region is [d, e): d is the first     *)
(* line of the original that defines the snippet's name, e is the first     *)
(* later non-blank line indented no deeper than line d that starts a        *)
(* definition, or the end of the file; the lines before d and from e on     *)
(* are in the result, unchanged and in order.                               *)
C9_DetectedRegionFrame ==
    (Called /\ ~Hinted /\ MergedRegion # NoRegion)
    => LET d == MergedRegion[1]
           e == MergedRegion[2]
       IN  /\ d \in 0 .. (Len(orig_lines) - 1)
           /\ DefinesName(d, SnippetName)
           /\ \A i \in 0 .. (d - 1) : ~DefinesName(i, SnippetName)
           /\ e \in (d + 1) .. Len(orig_lines)
           /\ e = Len(orig_lines) \/ RegionEndLine(e, d)
           /\ \A i \in (d + 1) .. (e - 1) : ~RegionEndLine(i, d)
           /\ Len(new_lines) >= d + (Len(orig_lines) - e)
           /\ SubSeq(new_lines, 1, d) = SubSeq(orig_lines, 1, d)
           /\ ResultTail(e) = SubSeq(orig_lines, e + 1, Len(orig_lines))

C9_Witness ==
    /\ pc = "computed"
    /\ ~Hinted
    /\ MergedRegion # NoRegion
    /\ MergedRegion[1] > 0
    /\ MergedRegion[2] < Len(orig_lines)
    /\ Indent(orig_lines[MergedRegion[1] + 1]) > 0
    /\ new_lines # orig_lines

(* C10 as stated. On an empty snippet the engine returns an empty proposed  *)
(* file, for every original and every hint range or none.                   *)
C10_EmptySnippetEmptiesFile ==
    (Called /\ proposed_code = <<>>) => new_lines = <<>>

(* C10 amended. On an empty snippet the engine returns an empty proposed    *)
(* file when there is no hint range, and the original unchanged when there  *)
(* is one (the hinted lines are restored as a trailing truncation).         *)
C10_EmptySnippet ==
    (Called /\ proposed_code = <<>>)
    => new_lines = (IF Hinted THEN orig_lines ELSE <<>>)

C10_Witness ==
    /\ pc = "computed"
    /\ proposed_code = <<>>
    /\ Hinted
    /\ hint_region[1] < hint_region[2]
    /\ new_lines = orig_lines

-----------------------------------------------------------------------------
(* code_extractor.py: the fenced blocks of a reply                          *)
(* In a reply the fence ``` and the ":" that starts a path annotation are   *)
(* tokens of their own.                                                     *)

\* the token of the fence ``` (a string cannot hold the backquote)
Fence == "<fence>"

\* a token made of the characters [\w.-] only
IsLang(t) == IsWord(t) \/ t \in {"py", "a.py", "b.py", "new.py", "src"}

\* position of the first token of text at or after p that is not an [\w.-] token
RECURSIVE SkipLang(_, _)
SkipLang(text, p) ==
    IF p <= Len(text) /\ IsLang(text[p]) THEN SkipLang(text, p + 1) ELSE p

\* index of the first ``` of text at or after position p, 0 when there is none
RECURSIVE FirstFence(_, _)
FirstFence(text, p) ==
    IF p > Len(text) THEN 0
    ELSE IF text[p] = Fence THEN p
    ELSE FirstFence(text, p + 1)

\* position of the last token of text at or before p that is not whitespace
RECURSIVE SkipSpaceBack(_, _)
SkipSpaceBack(text, p) ==
    IF p >= 1 /\ IsSpace(text[p]) THEN SkipSpaceBack(text, p - 1) ELSE p

\* str.strip()
Strip(text) == SubSeq(text, SkipSpace(text, 1), SkipSpaceBack(text, Len(text)))

\* _FENCE matched at p: ```([\w.-]*?)(?::([^\n]+))?\n(.*?)``` with re.DOTALL.
\* The language is the whole run of [\w.-] tokens, since only ":" or "\n" may
\* follow it; the annotation is greedy up to the end of the line and needs one
\* character at least; the content is lazy up to the next fence.
\* The result is <<>> when there is no match at p, else <<m>> with m.last the
\* index of the closing fence.
FenceAt(text, p) ==
    IF p > Len(text) \/ text[p] # Fence THEN <<>>
    ELSE LET r == SkipLang(text, p + 1)
             k == FirstNewline(text, r + 1)
             annotated == /\ r + 1 <= Len(text)
                          /\ text[r] = ":"
                          /\ text[r + 1] # "\n"
                          /\ k > 0
             plain == r <= Len(text) /\ text[r] = "\n"
             start == IF annotated THEN k + 1 ELSE r + 1
             close == FirstFence(text, start)
         IN  IF ~(annotated \/ plain) \/ close = 0 THEN <<>>
             ELSE << [group1 |-> SubSeq(text, p + 1, r - 1),
                      group2 |-> IF annotated THEN Some(SubSeq(text, r + 1, k - 1)) ELSE None,
                      group3 |-> SubSeq(text, start, close - 1),
                      last |-> close] >>

\* CodeBlock(language, filepath, content, end_pos) of a match (lines 22-27);
\* end_pos counts tokens
CodeBlock(m) ==
    [language |-> m.group1,
     filepath |-> IF m.group2 # None THEN Some(Strip(m.group2[1])) ELSE None,
     content |-> m.group3,
     end_pos |-> m.last]

\* extract(text): _FENCE.finditer scans left to right, matches do not overlap
RECURSIVE ExtractFrom(_, _)
ExtractFrom(text, p) ==
    IF p > Len(text) THEN <<>>
    ELSE LET m == FenceAt(text, p)
         IN  IF m = <<>> THEN ExtractFrom(text, p + 1)
             ELSE <<CodeBlock(m[1])>> \o ExtractFrom(text, m[1].last + 1)

Extract(text) == ExtractFrom(text, 1)

-----------------------------------------------------------------------------
(* The review protocol: SublimeAssistant.py and diff_view.py                *)

\* bounds: the values of _block_counter, and the view ids the editor hands out
MaxBlocks == 1
MaxViews == 3

\* a lookup that leaves the entry in the dict (d.get(k) for d.pop(k, None))
Kept(map, k) == map

\* dict operations: d[k] = v, d without k, d.pop(k, None)
Put(map, k, v) == (k :> v) @@ map
Drop(map, k) == [x \in DOMAIN map \ {k} |-> map[x]]
Pop(map, k) == IF k \in DOMAIN map THEN Some(map[k]) ELSE None

\* os.path.basename(path): what follows the last "/"
RECURSIVE Basename(_)
Basename(path) ==
    IF path = <<>> \/ path[Len(path)] = "/" THEN <<>>
    ELSE Basename(SubSeq(path, 1, Len(path) - 1)) \o <<path[Len(path)]>>

\* f"block_{next(_block_counter)}", f"diff_{block_id}", "apply:{block_id}"
BlockId(n) == <<"block_", ToString(n)>>
DiffId(block_id) == <<"diff_">> \o block_id
ApplyHref(block_id) == <<"apply:">> \o block_id

\* _DiffEntry(target_view_id, full_proposed, new_filepath)
DiffEntry(target_view_id, proposed, new_filepath) ==
    [target_view_id |-> target_view_id, full_proposed |-> proposed,
     new_filepath |-> new_filepath]

\* a view of window w (1 is the window of the chat panel, 2 another window);
\* diff_id is the id that the accept/reject phantom of a preview carries,
\* <<>> for a view that is not a preview
View(w, file_name, name, content, diff_id) ==
    [window |-> w, file_name |-> file_name, name |-> name, content |-> content,
     diff_id |-> diff_id]

\* window.views() of window w, among the views vws
WindowViews(vws, w) == {v \in DOMAIN vws : vws[v].window = w}

\* the views that can be the active view of group 0 of the chat window once
\* the open views are vws: the active one stays while it is there, else the
\* editor picks another view (which one is the editor's choice)
ActiveChoices(vws, act) ==
    IF act \in WindowViews(vws, 1) THEN {act}
    ELSE IF WindowViews(vws, 1) = {} THEN {NoView}
    ELSE WindowViews(vws, 1)

LastOp(name, result) == [name |-> name, result |-> result]

\* _add_apply_phantoms, lines 128-130: one _pending_blocks entry per block.
\* sel_view is history: the view in which the selection of the query was
\* made (NoView when there was none); the code does not store it.
RECURSIVE AddBlocks(_, _, _, _, _)
AddBlocks(blocks, counter, map, selection_region, sel_view) ==
    IF blocks = <<>> THEN map
    ELSE AddBlocks(Tail(blocks), counter + 1,
                   Put(map, BlockId(counter),
                       [code |-> Head(blocks).content,
                        filepath |-> Head(blocks).filepath,
                        sel_region |-> selection_region,
                        sel_view |-> sel_view]),
                   selection_region, sel_view)

\* SublimeAssistantReplacePlaceholderCommand.run: the reply text has arrived
\* in the chat panel, and _add_apply_phantoms puts an Apply link after each
\* of its blocks.  The selection of the query was made in the view that is
\* active in the editor group (SublimeAssistantSubmitCommand.run, line 202).
ReplacePlaceholder(text, selection_region) ==
    LET blocks == Extract(text)
    IN  /\ block_counter + Len(blocks) <= MaxBlocks
        /\ pending_blocks' = AddBlocks(blocks, block_counter, pending_blocks, selection_region,
                                       IF selection_region = NoRegion THEN NoView ELSE active)
        /\ block_counter' = block_counter + Len(blocks)
        /\ last_op' = LastOp("reply", "phantoms")
        /\ errors' = 0
        /\ UNCHANGED <<views, active, files, pending, view_counter, registered, rejected>>
        /\ UNCHANGED <<merge_vars, chat_vars, call_vars>>

\* history of a preview: the entry registered when the preview was opened
\* and the text of the target it was computed from; the code does not keep it
Opened(entry, original) == [entry |-> entry, original |-> original]

\* _open_preview_view: a new scratch view in group 0 of the chat window,
\* which is then the active view of the group
OpenPreviewView(vws, ctr, diff_id, name, text, opened) ==
    /\ ctr + 1 <= MaxViews
    /\ views' = Put(vws, ctr + 1,
                    View(1, None, name, text, diff_id) @@ [opened |-> opened])
    /\ view_counter' = ctr + 1
    /\ active' = ctr + 1

\* SublimeAssistantApplySnippetCommand.run, the application without review:
\* the code goes into the target view at once and nothing is registered
ApplyWithoutReview(vws, ctr, diff_id, target, original, code, hint) ==
    /\ views' = [vws EXCEPT ![target].content = code]
    /\ view_counter' = ctr
    /\ active' = target
    /\ UNCHANGED <<pending, registered>>

\* open_diff(window, diff_id, target_view, proposed_code, hint_region), where
\* vws are the open views, ctr the last view id and original the text that
\* target_view.substr returns
OpenDiff(vws, ctr, diff_id, target, original, code, hint) ==
    LET tv == vws[target]
        named == IF tv.file_name # None /\ tv.file_name[1] # <<>> THEN tv.file_name[1]
                 ELSE IF tv.name # <<>> THEN tv.name
                 ELSE <<"file">>
        filename == Basename(named)
        r == OpenDiffTexts(original, filename, code, hint)
    IN  /\ pending' = Put(pending, diff_id, DiffEntry(target, r.full_proposed, None))
        /\ registered' = registered \cup {diff_id}
        /\ OpenPreviewView(vws, ctr, diff_id, <<"Diff: ">> \o filename, r.diff_text,
                           Opened(DiffEntry(target, r.full_proposed, None), original))

\* open_new_file_preview(window, diff_id, filepath, content)
OpenNewFilePreview(diff_id, filepath, content) ==
    /\ pending' = Put(pending, diff_id, DiffEntry(NoView, content, Some(filepath)))
    /\ registered' = registered \cup {diff_id}
    /\ OpenPreviewView(views, view_counter, diff_id,
                       <<"New: ">> \o Basename(filepath), content,
                       Opened(DiffEntry(NoView, content, Some(filepath)), <<>>))

\* _on_apply_navigate(href, window): a click on the Apply link of a block
OnApplyNavigate(href) ==
    /\ href[1] = "apply:"
    /\ Tail(href) \in DOMAIN pending_blocks
    /\ LET block_id == Tail(href)
           entry == pending_blocks[block_id]
           diff_id == DiffId(block_id)
           same_name == {v \in WindowViews(views, 1) :
                            /\ views[v].file_name # None
                            /\ views[v].file_name[1] # <<>>
                            /\ entry.filepath # None
                            /\ Basename(views[v].file_name[1]) = Basename(entry.filepath[1])}
       IN  /\ \/ /\ entry.filepath # None
                 /\ same_name # {}
                 \* the first view of window.views() with that base name; the
                 \* order of the tabs is the user's
                 /\ \E target \in same_name :
                       OpenDiff(views, view_counter, diff_id, target,
                                views[target].content, entry.code, NoRegion)
                 /\ last_op' = LastOp("apply", "diff")
              \/ /\ entry.filepath # None
                 /\ same_name = {}
                 /\ entry.filepath[1] \in DOMAIN files
                 \* window.open_file returns a view that loads asynchronously:
                 \* what substr reads right away is nothing or the file
                 /\ \E original \in {<<>>, files[entry.filepath[1]]} :
                       OpenDiff(Put(views, view_counter + 1,
                                    View(1, entry.filepath, <<>>, files[entry.filepath[1]], <<>>)),
                                view_counter + 1, diff_id, view_counter + 1,
                                original, entry.code, NoRegion)
                 /\ last_op' = LastOp("apply", "diff")
              \/ /\ entry.filepath # None
                 /\ same_name = {}
                 /\ entry.filepath[1] \notin DOMAIN files
                 /\ OpenNewFilePreview(diff_id, entry.filepath[1], entry.code)
                 /\ last_op' = LastOp("apply", "new")
              \/ /\ entry.filepath = None
                 /\ active # NoView
                 /\ OpenDiff(views, view_counter, diff_id, active,
                             views[active].content, entry.code, entry.sel_region)
                 /\ last_op' = LastOp("apply", "diff")
              \/ /\ entry.filepath = None
                 /\ active = NoView
                 /\ last_op' = LastOp("apply", "none")
                 /\ UNCHANGED <<views, active, pending, view_counter, registered>>
           /\ errors' = 0
           /\ UNCHANGED <<files, pending_blocks, block_counter, rejected>>
           /\ UNCHANGED <<merge_vars, chat_vars, call_vars>>

\* an except branch without its return: the error is shown and the command
\* goes on to window.open_file
CreateFileFallsThrough(vws, w, filepath, code) ==
    /\ errors' = 1
    /\ files' = files
    /\ view_counter + 1 <= MaxViews
    /\ views' = Put(vws, view_counter + 1, View(w, Some(filepath), <<>>, <<>>, <<>>))
    /\ view_counter' = view_counter + 1
    /\ active' = view_counter + 1

\* SublimeAssistantCreateFileCommand.run(filepath, code) in window w, once the
\* preview is closed and the open views are vws.  os.makedirs, open or write
\* may raise OSError; a write that fails after open has truncated the file.
\* window.open_file focuses the view of the file when the window has one
\* (which then shows the old or the reloaded text), else opens a new view.
CreateFile(vws, w, filepath, code) ==
    \/ /\ files' = Put(files, filepath, code)
       /\ errors' = 0
       /\ LET shown == {v \in WindowViews(vws, w) : vws[v].file_name = Some(filepath)}
          IN  \/ /\ shown # {}
                 /\ \E v \in shown : \E text \in {vws[v].content, code} :
                       /\ views' = [vws EXCEPT ![v].content = text]
                       /\ active' \in (IF w = 1 THEN {v} ELSE ActiveChoices(vws, active))
                 /\ view_counter' = view_counter
              \/ /\ shown = {}
                 /\ view_counter + 1 <= MaxViews
                 /\ views' = Put(vws, view_counter + 1, View(w, Some(filepath), <<>>, code, <<>>))
                 /\ view_counter' = view_counter + 1
                 /\ active' \in (IF w = 1 THEN {view_counter + 1} ELSE ActiveChoices(vws, active))
    \/ /\ errors' = 1
       /\ files' \in {files, Put(files, filepath, <<>>)}
       /\ views' = vws
       /\ view_counter' = view_counter
       /\ active' \in ActiveChoices(vws, active)

\* a lookup that raises on an id that is not pending (_pending[diff_id])
UnknownAcceptRaises ==
    /\ last_op' = LastOp("accept", "unknown")
    /\ errors' = 1
    /\ UNCHANGED <<views, active, files, pending, view_counter>>

\* _apply, lines 221-223: the id is not pending, `if not entry: return`
UnknownAccept ==
    /\ last_op' = LastOp("accept", "unknown")
    /\ errors' = 0
    /\ UNCHANGED <<views, active, files, pending, view_counter>>

\* _apply(diff_id, diff_view): a click on accept in the preview diff_view
Apply(diff_id, diff_view) ==
    LET entry == Pop(pending, diff_id)
        window == views[diff_view].window
        closed == Drop(views, diff_view)
    IN  IF entry = None
        THEN UnknownAccept
        ELSE /\ pending' = Drop(pending, diff_id)
             /\ IF entry[1].new_filepath # None /\ entry[1].new_filepath[1] # <<>>
                THEN /\ CreateFile(closed, window, entry[1].new_filepath[1], entry[1].full_proposed)
                     /\ last_op' = LastOp("accept", IF errors' > 0 THEN "oserror" ELSE "created")
                ELSE IF entry[1].target_view_id \in WindowViews(closed, window)
                THEN \* SublimeAssistantApplyCodeCommand.run: one whole-view replace
                     /\ views' = [closed EXCEPT ![entry[1].target_view_id].content =
                                                   entry[1].full_proposed]
                     /\ active' \in (IF window = 1 THEN {entry[1].target_view_id}
                                     ELSE ActiveChoices(closed, active))
                     /\ last_op' = LastOp("accept", "replaced")
                     /\ errors' = 0
                     /\ UNCHANGED <<files, view_counter>>
                ELSE /\ views' = closed
                     /\ active' \in ActiveChoices(closed, active)
                     /\ last_op' = LastOp("accept", "no target")
                     /\ errors' = 0
                     /\ UNCHANGED <<files, view_counter>>

\* _on_navigate(href, diff_id, diff_view): a click on a link of the phantom
\* of the open preview diff_view
OnNavigate(href, diff_view) ==
    /\ diff_view \in DOMAIN views
    /\ views[diff_view].diff_id # <<>>
    /\ LET diff_id == views[diff_view].diff_id
       IN  \/ /\ href = "accept"
              /\ Apply(diff_id, diff_view)
              /\ UNCHANGED rejected
           \/ /\ href = "reject"
              /\ pending' = Drop(pending, diff_id)
              /\ rejected' = IF diff_id \in DOMAIN pending THEN rejected \cup {diff_id}
                             ELSE rejected
              /\ views' = Drop(views, diff_view)
              /\ active' \in ActiveChoices(views', active)
              /\ last_op' = LastOp("reject", IF diff_id \in DOMAIN pending THEN "removed"
                                             ELSE "unknown")
              /\ errors' = 0
              /\ UNCHANGED <<files, view_counter>>
    /\ UNCHANGED <<pending_blocks, block_counter, registered>>
    /\ UNCHANGED <<merge_vars, chat_vars, call_vars>>

(* The user and the editor                                                  *)

\* the views the user acts on: the focused view of the editor group of the
\* chat window (the user clicks on a tab first) and the views of the other window
UserViews == {v \in DOMAIN views : v = active \/ views[v].window = 2}

\* the user closes a view (a preview or a document)
UserClosesView(v) ==
    /\ v \in UserViews
    /\ views' = Drop(views, v)
    /\ active' \in ActiveChoices(views', active)
    /\ last_op' = LastOp("user", "none")
    /\ errors' = 0
    /\ UNCHANGED <<files, pending_blocks, block_counter, pending, view_counter,
                   registered, rejected>>
    /\ UNCHANGED <<merge_vars, chat_vars, call_vars>>

\* the user drags the focused document into the other window
UserMovesView(v) ==
    /\ v = active
    /\ v \in DOMAIN views
    /\ views[v].diff_id = <<>>
    /\ views' = [views EXCEPT ![v].window = 2]
    /\ active' \in ActiveChoices(views', active)
    /\ last_op' = LastOp("user", "none")
    /\ errors' = 0
    /\ UNCHANGED <<files, pending_blocks, block_counter, pending, view_counter,
                   registered, rejected>>
    /\ UNCHANGED <<merge_vars, chat_vars, call_vars>>

\* the user types into a document (previews are read-only)
UserEditsView(v, text) ==
    /\ v \in UserViews
    /\ views[v].diff_id = <<>>
    /\ text # views[v].content
    /\ views' = [views EXCEPT ![v].content = text]
    /\ last_op' = LastOp("user", "none")
    /\ errors' = 0
    /\ UNCHANGED <<active, files, pending_blocks, block_counter, pending, view_counter,
                   registered, rejected>>
    /\ UNCHANGED <<merge_vars, chat_vars, call_vars>>

\* the user clicks on another tab of group 0 of the chat window
UserFocusesView(v) ==
    /\ v \in WindowViews(views, 1)
    /\ v # active
    /\ active' = v
    /\ last_op' = LastOp("user", "none")
    /\ errors' = 0
    /\ UNCHANGED <<views, files, pending_blocks, block_counter, pending, view_counter,
                   registered, rejected>>
    /\ UNCHANGED <<merge_vars, chat_vars, call_vars>>

(* Inputs of the review protocol                                            *)

PathOpen == <<"/", "proj", "/", "a.py">>
PathDisk == <<"b.py">>

TextA == Join(<<DefF, Ret1>>)
TextB == Join(<<DefG, Ret2>>)
CodeF == Join(<<DefF, Ret2>>)

\* a reply with one block: prose, then a fence with the annotation tokens
\* (<<>> for none) and the code
Reply(annotation, code) ==
    <<"Sure:", "\n", Fence, "py">> \o annotation \o <<"\n">> \o code \o <<Fence, "\n">>

ReplyNoPath == Reply(<<>>, CodeF)
ReplyOpenPath == Reply(<<":", "a.py">>, CodeF)
ReplyDiskPath == Reply(<<":", " ", "b.py">>, CodeF)
ReplyNewPath == Reply(<<":", "src", "/", "new.py">>, TextB)
ReplyBlankPath == Reply(<<":", " ", " ">>, CodeF)

\* the replies that arrive, each with the selection_region of its query
\* (None, or [start_line, end_line] of a selection)
ReplyInputs ==
    {<<ReplyNoPath, <<0, 1>> >>, <<ReplyOpenPath, NoRegion>>, <<ReplyDiskPath, NoRegion>>,
     <<ReplyNewPath, <<0, 1>> >>, <<ReplyBlankPath, NoRegion>>,
     <<ReplyNoPath \o ReplyNewPath, NoRegion>>}

\* what the user types
EditTexts == {TextB}

\* the merge engine is not running on its own
MergeIdle ==
    /\ orig_lines = <<>>
    /\ proposed_code = <<>>
    /\ hint_region = NoRegion
    /\ new_lines = <<>>
    /\ full_proposed = <<>>
    /\ diff_text = <<>>
    /\ pc = "review"

\* the plugin is loaded, one document is open in the editor group and active
InitReview ==
    /\ MergeIdle
    /\ ChatIdle
    /\ CallIdle
    /\ views = 1 :> View(1, Some(PathOpen), <<>>, TextA, <<>>)
    /\ active = 1
    /\ files = (PathOpen :> TextA) @@ (PathDisk :> TextB)
    /\ pending_blocks = <<>>
    /\ block_counter = 0
    /\ pending = <<>>
    /\ view_counter = 1
    /\ errors = 0
    /\ last_op = LastOp("idle", "none")
    /\ registered = {}
    /\ rejected = {}

NextReview ==
    \/ \E r \in ReplyInputs : ReplacePlaceholder(r[1], r[2])
    \/ \E block_id \in DOMAIN pending_blocks : OnApplyNavigate(ApplyHref(block_id))
    \/ \E href \in {"accept", "reject"}, v \in DOMAIN views : OnNavigate(href, v)
    \/ \E v \in DOMAIN views : UserClosesView(v)
    \/ \E v \in DOMAIN views : UserMovesView(v)
    \/ \E v \in DOMAIN views, text \in EditTexts : UserEditsView(v, text)
    \/ \E v \in DOMAIN views : UserFocusesView(v)

SpecReview == InitReview /\ [][NextReview]_vars

-----------------------------------------------------------------------------
(* Properties of the review protocol (SpecReview)                           *)

\* a handler of the plugin has replaced the content of a document that was
\* and stays open (previews are not documents)
DocumentReplaced ==
    /\ last_op'.name # "user"
    /\ \E v \in DOMAIN views \cap DOMAIN views' :
          /\ views[v].diff_id = <<>>
          /\ views'[v].content # views[v].content

\* a handler of the plugin has created or written a file
FileWritten == last_op'.name # "user" /\ files' # files

\* the step is accept(id) on an entry that is registered and not resolved
AcceptOfPending ==
    /\ last_op'.name = "accept"
    /\ \E id \in (DOMAIN pending \cap registered) : id \notin DOMAIN pending'

(* C11. No mutation without review: a handler replaces the content of a     *)
(* document or writes a file only in an accept step on an entry that is     *)
(* registered and pending; an Apply click, the opening of a preview and     *)
(* reject change no document and no file.                                   *)
C11_NoMutationWithoutReview ==
    [][(DocumentReplaced \/ FileWritten) => AcceptOfPending]_vars

\* accept has replaced a document, and accept has created a file
C11_Witness ==
    \/ /\ last_op = LastOp("accept", "replaced")
       /\ \E v \in DOMAIN views : views[v].diff_id = <<>> /\ views[v].content \notin {TextA, TextB}
    \/ /\ last_op = LastOp("accept", "created")
       /\ DOMAIN files # {PathOpen, PathDisk}

\* the step is accept(id) on the pending entry of id
AcceptStep(id) ==
    /\ last_op'.name = "accept"
    /\ id \in DOMAIN pending
    /\ id \notin DOMAIN pending'

(* C12. After accept(id) on a registered entry that targets an existing     *)
(* document, the entire content of that document is the entry's proposed    *)
(* content, also when the target view has been moved since the preview was  *)
(* opened (a target that has been closed has no content any more).          *)
C12_AcceptReplacesTarget ==
    [][\A id \in DOMAIN pending :
          (AcceptStep(id) /\ pending[id].target_view_id \in DOMAIN views')
          => views'[pending[id].target_view_id].content = pending[id].full_proposed]_vars

\* the step is a click on accept or reject in a preview whose id is not pending
UnknownIdStep ==
    /\ last_op'.name \in {"accept", "reject"}
    /\ last_op'.result = "unknown"

(* C13. accept(id) or reject(id) on an id that is not pending is a no-op:   *)
(* the pending set, the content of every document and the files are         *)
(* unchanged and no error is shown, so a second accept of the same id       *)
(* writes nothing.                                                          *)
C13_UnknownIdNoOp ==
    [][UnknownIdStep
       => /\ pending' = pending
          /\ files' = files
          /\ errors' = 0
          /\ \A v \in DOMAIN views :
                views[v].diff_id = <<>> => (v \in DOMAIN views' /\ views'[v] = views[v])]_vars

\* accept was clicked in a preview whose entry an earlier accept has consumed
C13_Witness ==
    /\ last_op = LastOp("accept", "unknown")
    /\ \E v \in DOMAIN views :
          /\ views[v].diff_id \in registered
          /\ views[v].diff_id \notin DOMAIN pending

\* the ids that the step takes out of the pending set
Resolved == DOMAIN pending \ DOMAIN pending'

C15_PendingHasOpenPreview ==
    \A id \in DOMAIN pending : \E v \in DOMAIN views : views[v].diff_id = id

\* the ids that the step stores into the pending set: those of the previews
\* it opens (open_diff and open_new_file_preview store, then open the preview)
RegisteredNow ==
    {views'[v].diff_id : v \in {x \in DOMAIN views' \ DOMAIN views : views'[x].diff_id # <<>>}}

(* C16. Identifiers are never reused: no step stores an entry under an id   *)
(* that is pending or was stored before.                                    *)
C16_IdsNeverReused ==
    [][\A id \in RegisteredNow : id \notin registered]_vars

\* the entry names a target view; the entry names a non-empty path
HasTargetView(entry) == entry.target_view_id # NoView
HasNewFilePath(entry) == entry.new_filepath # None /\ entry.new_filepath[1] # <<>>

(* C17. In every reachable state every pending entry names exactly one      *)
(* target: a view, or a non-empty path of a new file, never both and never  *)
(* neither.                                                                 *)
C17_ExactlyOneTarget ==
    \A id \in DOMAIN pending : HasTargetView(pending[id]) # HasNewFilePath(pending[id])

(* C18. When accept(id) targets a new-file path and os.makedirs, open or    *)
(* write raises OSError, one error dialog is shown, the write is not tried  *)
(* again (the file is absent, as before, or left truncated), no view of the *)
(* file is opened and no view changes, and the entry is removed.            *)
C18_FilesystemErrorOnAccept ==
    [][last_op' = LastOp("accept", "oserror")
       => /\ errors' = 1
          /\ Cardinality(Resolved) = 1
          /\ \A id \in Resolved :
                /\ HasNewFilePath(pending[id])
                /\ files' \in {files, Put(files, pending[id].new_filepath[1], <<>>)}
          /\ DOMAIN views' \subseteq DOMAIN views
          /\ \A v \in DOMAIN views' : views'[v] = views[v]]_vars

\* the creation of src/new.py has failed: the entry is gone, no view shows the file
C18_Witness ==
    /\ last_op = LastOp("accept", "oserror")
    /\ errors = 1
    /\ registered # {}
    /\ pending = <<>>
    /\ \A v \in DOMAIN views : views[v].file_name # Some(<<"src", "/", "new.py">>)

\* reject(id) on a pending entry takes the entry out and leaves the files,
\* the documents and the other entries as they are
RejectFrame ==
    last_op' = LastOp("reject", "removed")
    => /\ Cardinality(Resolved) = 1
       /\ \A id \in DOMAIN pending' : pending'[id] = pending[id]
       /\ files' = files
       /\ errors' = 0
       /\ \A v \in DOMAIN views :
             views[v].diff_id = <<>> => (v \in DOMAIN views' /\ views'[v] = views[v])

(* C19. reject(id) on a registered entry removes the entry and changes      *)
(* neither a document other than the preview nor a file, and an accept(id)  *)
(* that comes after it writes nothing.                                      *)
C19_RejectOnlyRemoves ==
    [][/\ RejectFrame
       /\ \A id \in rejected : AcceptStep(id) => ~(DocumentReplaced \/ FileWritten)]_vars

-----------------------------------------------------------------------------
(* Properties of open_diff (SpecMerge)                                      *)

\* open_diff has computed diff_text and full_proposed
Diffed == pc = "diffed"

\* orig_lines of open_diff: original.splitlines(keepends=True)
OriginalLines == Splitlines(Join(orig_lines), TRUE)

(* C20. The diff text of open_diff is the sentinel '(No differences)'       *)
(* exactly when the proposed line list equals the original line list, and   *)
(* a non-empty unified diff (it starts with the '--- a/' header) otherwise; *)
(* in both cases the content it registers is the concatenation of the       *)
(* lines _compute_proposed_file returns, not the raw snippet.               *)
C20_SentinelIffIdentical ==
    Diffed
    => LET proposed == ComputeProposedFile(OriginalLines, proposed_code, hint_region)
       IN  /\ (diff_text = NoDifferences) <=> (proposed = OriginalLines)
           /\ proposed # OriginalLines
              => (Len(diff_text) > Len(NoDifferences) /\ diff_text[1] = "--- ")
           /\ full_proposed = Join(proposed)

\* the sentinel is shown for a snippet that is not the file, and the content
\* registered is the whole file
C20_Witness ==
    /\ Diffed
    /\ diff_text = NoDifferences
    /\ proposed_code # Join(orig_lines)
    /\ full_proposed = Join(orig_lines)
    /\ full_proposed # proposed_code

\* what applying a patch gives when a line of the patch does not fit
Rejected == <<<<"<rejected>">>>>

\* the number that a token of a hunk header stands for
LineNumber(t, max) == CHOOSE n \in 0 .. max : ToString(n) = t

\* the lines of a unified diff applied to the line list orig, as patch does
\* it: the lines before a hunk are copied, a " " line and a "-" line must be
\* the next original line (which is kept, or dropped), and a "+" line is
\* added.  dl are the lines of the diff still to read, pos original lines are
\* consumed and out is the output so far.
RECURSIVE PatchLines(_, _, _, _)
PatchLines(dl, orig, pos, out) ==
    IF dl = <<>> THEN out \o SubSeq(orig, pos + 1, Len(orig))
    ELSE IF Head(dl)[1] = "@@ -"
    THEN Only({IF upto < pos \/ upto > Len(orig) THEN Rejected
               ELSE PatchLines(Tail(dl), orig, upto, out \o SubSeq(orig, pos + 1, upto)) :
                  upto \in {IF Len(Head(dl)) > 3 /\ Head(dl)[3] = "," /\ Head(dl)[4] = "0"
                            THEN LineNumber(Head(dl)[2], Len(orig) + 1)
                            ELSE LineNumber(Head(dl)[2], Len(orig) + 1) - 1}})
    ELSE IF Head(dl)[1] = "+"
    THEN PatchLines(Tail(dl), orig, pos, Append(out, Tail(Head(dl))))
    ELSE IF Head(dl)[1] \in {" ", "-"} /\ pos < Len(orig) /\ orig[pos + 1] = Tail(Head(dl))
    THEN PatchLines(Tail(dl), orig, pos + 1,
                    IF Head(dl)[1] = " " THEN Append(out, Tail(Head(dl))) ELSE out)
    ELSE Rejected

\* the text that applying the unified diff diff to the text original gives
\* (Rejected when the diff does not apply)
ApplyUnifiedDiff(original, diff) ==
    Only({IF Len(dl) < 3 \/ dl[1][1] # "--- " \/ dl[2][1] # "+++ " THEN Rejected
          ELSE Only({IF lines = Rejected THEN Rejected ELSE Join(lines) :
                        lines \in {PatchLines(SubSeq(dl, 3, Len(dl)),
                                              Splitlines(original, TRUE), 0, <<>>)}}) :
             dl \in {Splitlines(diff, TRUE)}})

\* the last n lines of lines
Suffix(lines, n) == SubSeq(lines, Len(lines) - n + 1, Len(lines))

(* C24. The output of the merge of a region is the snippet's lines in full  *)
(* and in order, followed by nothing or by a suffix of the original region; *)
(* the suffix is not empty only when the last opcode of the alignment is a  *)
(* delete, and a delete that is kept is the final opcode.                   *)
C24_SnippetThenOriginalSuffix ==
    (Called /\ MergedRegion # NoRegion)
    => /\ \E n \in 0 .. Len(RegionLines) :
             /\ MergedPart = SnippetLines \o Suffix(RegionLines, n)
             /\ n > 0 => /\ RegionOpcodes # <<>>
                         /\ RegionOpcodes[Len(RegionOpcodes)].tag = "delete"
       /\ \A k \in 1 .. Len(RegionOpcodes) :
             (/\ RegionOpcodes[k].tag = "delete"
              /\ KeepsDelete(RegionOpcodes[k], LastNonDeleteOrigEnd(RegionOpcodes, 0)))
             => k = Len(RegionOpcodes)

\* a merge that replaced a line of the region and kept the lines after the
\* snippet's end
C24_Witness ==
    /\ pc = "computed"
    /\ MergedRegion # NoRegion
    /\ \E k \in 1 .. Len(RegionOpcodes) : RegionOpcodes[k].tag = "replace"
    /\ FinalDeleteLines(RegionOpcodes, RegionLines) # <<>>
    /\ MergedPart = SnippetLines \o FinalDeleteLines(RegionOpcodes, RegionLines)

(* C22. Round trip: when the diff of open_diff is not empty, applying the   *)
(* diff text to the original gives exactly the proposed content that        *)
(* open_diff registers, also when the last line of the original or of the   *)
(* proposed content has no line terminator.                                 *)
C22_DiffRoundTrip ==
    (Diffed /\ diff_text # NoDifferences)
    => ApplyUnifiedDiff(Join(orig_lines), diff_text) = full_proposed

\* the step is a click on accept in the open preview v, on a pending entry
ClickedAccept(v) ==
    /\ last_op'.name = "accept"
    /\ v \in DOMAIN views
    /\ v \notin DOMAIN views'
    /\ views[v].diff_id \in DOMAIN pending

(* C25. An accept clicked in a preview uses the entry that was computed     *)
(* when that preview was opened: the target it replaces and the content it  *)
(* writes (into the document, or into the new file) are those of that       *)
(* entry, whatever Apply clicks came in between.                            *)
C25_AcceptUsesOpenedEntry ==
    [][\A v \in DOMAIN views :
          ClickedAccept(v)
          => /\ pending[views[v].diff_id] = views[v].opened.entry
             /\ last_op'.result = "replaced"
                => views'[views[v].opened.entry.target_view_id].content
                   = views[v].opened.entry.full_proposed
             /\ last_op'.result = "created"
                => files'[views[v].opened.entry.new_filepath[1]]
                   = views[v].opened.entry.full_proposed]_vars

\* the step is an Apply click on block b, which has no path and a hint range
\* stored, while the active view is not the view of the selection
HintedApplyElsewhere(b) ==
    /\ last_op' = LastOp("apply", "diff")
    /\ pending_blocks[b].filepath = None
    /\ pending_blocks[b].sel_region # NoRegion
    /\ active # pending_blocks[b].sel_view
    /\ views'[view_counter'].diff_id = DiffId(b)

(* C26. The hint range is used only on the document of the selection: when  *)
(* another view is active at the Apply click, the proposed content is the   *)
(* one computed for that view without the hint.                             *)
C26_HintOnlyOnItsDocument ==
    [][\A b \in DOMAIN pending_blocks :
          HintedApplyElsewhere(b)
          => pending'[DiffId(b)].full_proposed
             = OpenDiffTexts(views[active].content, <<"file">>, pending_blocks[b].code,
                             NoRegion).full_proposed]_vars

(* C27. When accept replaces the content of a document, the document still  *)
(* holds the original text that the diff of the preview was computed from.  *)
C27_AcceptOnUnchangedOriginal ==
    [][\A v \in DOMAIN views :
          (ClickedAccept(v) /\ last_op'.result = "replaced")
          => views[pending[views[v].diff_id].target_view_id].content
             = views[v].opened.original]_vars

-----------------------------------------------------------------------------
(* Queries and replies: _submit_query, _call_api, history.py, view.py       *)
(* The UI thread runs the commands and the callbacks of sublime.set_timeout; *)
(* every query has a worker thread that runs _call_api.                     *)

\* bound: the queries submitted in one window
MaxQueries == 2

\* window.id() of the window of the chat panel
WinId == 1

\* view.PLACEHOLDER
Placeholder == "> _Thinking..._"

\* the text of query q, and result.content of context.build for it
Query(q) == <<"ask ", ToString(q)>>

\* view.user_block(query, hints) for a query without hints
UserBlock(query) == <<"\n---\n\n## User\n">> \o query \o <<"\n", "\n">>

\* view.assistant_header()
AssistantHeader == <<"## Assistant\n", Placeholder>>

\* a message of the conversation
Message(role, content) == [role |-> role, content |-> content]

\* the replies api.call returns for query q: a text with one code block, or
\* an error transcript
AnswerTo(q) == <<"answer ", ToString(q), "\n">> \o ReplyNoPath
ErrorTo(q) == <<"error ", ToString(q)>>

\* the state of the worker thread of a query
Thread(at, reply, success) == [pc |-> at, reply |-> reply, success |-> success]

\* the worker of q moves on to the statement at
Goto(q, at) == threads' = [threads EXCEPT ![q].pc = at]

\* SublimeAssistantSubmitCommand.run -> _submit_query: the user block and the
\* assistant header go into the panel, and the worker thread starts
Submit(q) ==
    /\ q = Len(threads) + 1
    /\ q <= MaxQueries
    /\ panel' = panel \o UserBlock(Query(q)) \o AssistantHeader
    /\ threads' = Append(threads, Thread("get_messages", <<>>, FALSE))
    /\ actor' = "ui"
    /\ UNCHANGED <<store, timeouts>>
    /\ UNCHANGED <<merge_vars, review_vars, call_vars>>

\* history.get_messages, line 9: the test `window_id not in _store`
GetMessagesTest(q) ==
    /\ threads[q].pc = "get_messages"
    /\ Goto(q, IF WinId \in DOMAIN store THEN "call" ELSE "init_store")
    /\ actor' = "worker"
    /\ UNCHANGED <<panel, store, timeouts>>
    /\ UNCHANGED <<merge_vars, review_vars, call_vars>>

\* history.get_messages, line 10: _store[window_id] = [system message]
GetMessagesInit(q) ==
    /\ threads[q].pc = "init_store"
    /\ store' = Put(store, WinId, <<Message("system", <<"prompt">>)>>)
    /\ Goto(q, "call")
    /\ actor' = "worker"
    /\ UNCHANGED <<panel, timeouts>>
    /\ UNCHANGED <<merge_vars, review_vars, call_vars>>

\* _call_api, line 64: api.call returns (reply, success)
ApiCallReturns(q) ==
    /\ threads[q].pc = "call"
    /\ \E success \in BOOLEAN :
          threads' = [threads EXCEPT ![q] =
                         IF success THEN Thread("append_user", AnswerTo(q), TRUE)
                         ELSE Thread("set_timeout", ErrorTo(q), FALSE)]
    /\ actor' = "worker"
    /\ UNCHANGED <<panel, store, timeouts>>
    /\ UNCHANGED <<merge_vars, review_vars, call_vars>>

\* history.append(window_id, role, content)
HistoryAppend(role, content) ==
    store' = IF WinId \in DOMAIN store
             THEN [store EXCEPT ![WinId] = Append(@, Message(role, content))]
             ELSE store

\* _call_api, line 67: history.append(win_id, "user", full_content)
AppendUser(q) ==
    /\ threads[q].pc = "append_user"
    /\ HistoryAppend("user", Query(q))
    /\ Goto(q, "append_assistant")
    /\ actor' = "worker"
    /\ UNCHANGED <<panel, timeouts>>
    /\ UNCHANGED <<merge_vars, review_vars, call_vars>>

\* _call_api, line 68: history.append(win_id, "assistant", reply)
AppendAssistant(q) ==
    /\ threads[q].pc = "append_assistant"
    /\ HistoryAppend("assistant", threads[q].reply)
    /\ Goto(q, "set_timeout")
    /\ actor' = "worker"
    /\ UNCHANGED <<panel, timeouts>>
    /\ UNCHANGED <<merge_vars, review_vars, call_vars>>

\* a worker that runs the command itself, without sublime.set_timeout
RunCommandInWorker(q) ==
    /\ threads[q].pc = "set_timeout"
    /\ pending_blocks' = AddBlocks(Extract(threads[q].reply \o <<"\n">>), block_counter,
                                   pending_blocks, NoRegion, NoView)
    /\ block_counter' = block_counter + Len(Extract(threads[q].reply \o <<"\n">>))
    /\ panel' = panel \o threads[q].reply \o <<"\n">>
    /\ Goto(q, "done")
    /\ actor' = "worker"
    /\ UNCHANGED <<store, timeouts>>
    /\ UNCHANGED <<views, active, files, pending, view_counter, errors, last_op,
                   registered, rejected>>
    /\ UNCHANGED <<merge_vars, call_vars>>

\* _call_api, lines 70-76: sublime.set_timeout(lambda: panel.run_command(
\* "sublime_assistant_replace_placeholder", {text: reply + "\n", ...}), 0)
SetTimeout(q) ==
    /\ threads[q].pc = "set_timeout"
    /\ timeouts' = Append(timeouts, [text |-> threads[q].reply \o <<"\n">>,
                                     selection_region |-> NoRegion])
    /\ Goto(q, "done")
    /\ actor' = "worker"
    /\ UNCHANGED <<panel, store>>
    /\ UNCHANGED <<merge_vars, review_vars, call_vars>>

\* SublimeAssistantReplacePlaceholderCommand.run, lines 234-242: the text
\* replaces the placeholder when the panel ends with it, else it is inserted
\* at the end of the panel
PanelAfterReply(text) ==
    IF panel # <<>> /\ panel[Len(panel)] = Placeholder
    THEN SubSeq(panel, 1, Len(panel) - 1) \o text
    ELSE panel \o text

\* the UI thread runs the oldest callback: replace_placeholder, then
\* _add_apply_phantoms
RunTimeout ==
    /\ timeouts # <<>>
    /\ LET callback == Head(timeouts)
           blocks == Extract(callback.text)
       IN  /\ panel' = PanelAfterReply(callback.text)
           /\ pending_blocks' = AddBlocks(blocks, block_counter, pending_blocks,
                                          callback.selection_region, NoView)
           /\ block_counter' = block_counter + Len(blocks)
    /\ timeouts' = Tail(timeouts)
    /\ actor' = "ui"
    /\ UNCHANGED <<threads, store>>
    /\ UNCHANGED <<views, active, files, pending, view_counter, errors, last_op,
                   registered, rejected>>
    /\ UNCHANGED <<merge_vars, call_vars>>

\* the plugin is loaded and the chat panel is open and empty
InitChat ==
    /\ MergeIdle
    /\ ReviewIdle
    /\ ChatIdle
    /\ CallIdle

NextChat ==
    \/ \E q \in 1 .. MaxQueries : Submit(q)
    \/ \E q \in DOMAIN threads : GetMessagesTest(q)
    \/ \E q \in DOMAIN threads : GetMessagesInit(q)
    \/ \E q \in DOMAIN threads : ApiCallReturns(q)
    \/ \E q \in DOMAIN threads : AppendUser(q)
    \/ \E q \in DOMAIN threads : AppendAssistant(q)
    \/ \E q \in DOMAIN threads : SetTimeout(q)
    \/ RunTimeout

SpecChat == InitChat /\ [][NextChat]_vars

\* when the threads are scheduled fairly and the UI thread runs its callbacks,
\* every query gets its reply
FairChat ==
    /\ SpecChat
    /\ \A q \in 1 .. MaxQueries :
          WF_vars(GetMessagesTest(q) \/ GetMessagesInit(q) \/ ApiCallReturns(q)
                  \/ AppendUser(q) \/ AppendAssistant(q) \/ SetTimeout(q))
    /\ WF_vars(RunTimeout)

-----------------------------------------------------------------------------
(* Properties of the queries (SpecChat)                                     *)

\* the step reads into or writes a pending map, or changes a view
TouchesPendingOrViews ==
    pending_blocks' # pending_blocks \/ pending' # pending \/ views' # views

(* C21. The pending maps and the views change only in steps of the UI       *)
(* thread; a worker thread never changes them; and a step that creates      *)
(* pending entries runs a callback that a finished worker had handed to the *)
(* UI thread with set_timeout, for every interleaving of the queries.       *)
C21_PendingMapsOnUiThread ==
    [][/\ TouchesPendingOrViews => actor' = "ui"
       /\ pending_blocks' # pending_blocks
          => /\ timeouts # <<>>
             /\ timeouts' = Tail(timeouts)
             /\ \E q \in DOMAIN threads :
                   /\ threads[q].pc = "done"
                   /\ Head(timeouts).text = threads[q].reply \o <<"\n">>]_vars

\* the UI thread has created the entry of one reply while the worker of
\* another query is still running
C21_Witness ==
    /\ pending_blocks # <<>>
    /\ actor = "ui"
    /\ \E q \in DOMAIN threads : threads[q].pc \in {"append_user", "append_assistant", "set_timeout"}

\* query q has appended its user message and its reply to the conversation
Answered(msgs, i, q) ==
    /\ msgs[i] = Message("user", Query(q))
    /\ i + 1 <= Len(msgs) => msgs[i + 1] = Message("assistant", AnswerTo(q))

(* C29. The stored conversation of the window is the system message, then   *)
(* user and assistant messages in strict alternation, each assistant        *)
(* message directly after the user message of its own query, for every      *)
(* interleaving of the queries; a query whose call failed has no message    *)
(* in it.                                                                   *)
C29_ConversationAlternates ==
    WinId \in DOMAIN store
    => LET msgs == store[WinId]
       IN  /\ msgs # <<>>
           /\ msgs[1].role = "system"
           /\ \A i \in 2 .. Len(msgs) :
                 msgs[i].role = IF i % 2 = 0 THEN "user" ELSE "assistant"
           /\ \A i \in 2 .. Len(msgs) :
                 i % 2 = 0
                 => \E q \in DOMAIN threads : threads[q].success /\ Answered(msgs, i, q)

\* every query has its reply in the panel: the workers are done and the UI
\* thread has run their callbacks
AllReplied ==
    /\ threads # <<>>
    /\ \A q \in DOMAIN threads : threads[q].pc = "done"
    /\ timeouts = <<>>

\* the panel in which the first n queries are each followed by the assistant
\* header and their own reply
RECURSIVE PanelOfReplies(_)
PanelOfReplies(n) ==
    IF n = 0 THEN <<>>
    ELSE PanelOfReplies(n - 1) \o UserBlock(Query(n)) \o <<AssistantHeader[1]>>
         \o threads[n].reply \o <<"\n">>

(* C30. Once every query of the panel has received its reply, the panel     *)
(* holds no placeholder and every reply stands directly under the assistant *)
(* header of its own query, for overlapping queries and any order of        *)
(* arrival of the replies.                                                  *)
C30_ReplyUnderOwnHeader ==
    AllReplied
    => /\ \A i \in DOMAIN panel : panel[i] # Placeholder
       /\ panel = PanelOfReplies(Len(threads))

-----------------------------------------------------------------------------
(* The tool-calling loop: api.call, _run_tool                               *)
(* A URL is a sequence of tokens; the body of a response is the value that  *)
(* json.loads gives: null, or an object with the optional keys choices and  *)
(* message.                                                                 *)

MAX_TOOL_ROUNDS == 5

\* the longest tool_calls list of one response
MaxToolCalls == 2

Endpoint == <<"https://", "api.example/v1/chat/completions">>
PageUrl == <<"https://", "docs.example/page">>

ApiKeys == {"", "sk-1"}

\* call: headers
Headers(api_key) ==
    <<<<"Content-Type", "application/json">>>>
    \o (IF api_key # "" THEN <<<<"Authorization", "Bearer ", api_key>>>> ELSE <<>>)

\* the conversation the caller passes
CallMessages == <<Message("system", <<"You are helpful.">>), Message("user", <<"hi">>)>>

\* the arguments string {"url": u}
UrlArguments(u) == <<"{\"url\": \"">> \o u \o <<"\"}">>

InvalidJson == <<"<invalid>">>

\* (json.loads(arguments).get("url") or ""): InvalidJson when json.loads raises
JsonUrl(arguments) ==
    IF arguments = <<"{}">> THEN <<>>
    ELSE IF /\ Len(arguments) >= 2
            /\ arguments[1] = "{\"url\": \""
            /\ arguments[Len(arguments)] = "\"}"
         THEN SubSeq(arguments, 2, Len(arguments) - 1)
    ELSE InvalidJson

ToolCall(id, name, arguments) == [id |-> id, name |-> name, arguments |-> arguments]

\* what _fetch_url returns for a URL
FetchUrl(u) == <<"text of ">> \o u

RunTool(name, arguments) ==
    IF name # "fetch_url" THEN <<"Unknown tool: ", name>>
    ELSE IF JsonUrl(arguments) = InvalidJson THEN <<"Invalid arguments JSON">>
    ELSE IF Strip(JsonUrl(arguments)) = <<>> \/ Head(Strip(JsonUrl(arguments))) \notin {"http://", "https://"}
         THEN <<"Error: URL must start with http:// or https://">>
    ELSE FetchUrl(Strip(JsonUrl(arguments)))

ToolMessage(tool_call_id, content) ==
    [role |-> "tool", tool_call_id |-> tool_call_id, content |-> content]

AssistantToolMessage(content, tool_calls) ==
    [role |-> "assistant", content |-> content, tool_calls |-> tool_calls]

\* the for loop over tool_calls, from the i-th call on: the local variable
\* url and current_messages after it
RECURSIVE RunToolCalls(_, _, _, _, _)
RunToolCalls(tool_calls, i, on, u, msgs) ==
    IF i > Len(tool_calls) THEN [url |-> u, current_messages |-> msgs]
    ELSE LET tc == tool_calls[i]
             fetched == JsonUrl(tc.arguments)
         IN  RunToolCalls(tool_calls, i + 1, on,
                          IF on /\ tc.name = "fetch_url" /\ fetched # InvalidJson
                          THEN Strip(fetched) ELSE u,
                          Append(msgs, ToolMessage(tc.id, RunTool(tc.name, tc.arguments))))

\* the results of _do_request
Failed == [ok |-> FALSE, body |-> "none", choices |-> None, message |-> None]
Result(body, choices, message) ==
    [ok |-> TRUE, body |-> body, choices |-> choices, message |-> message]

\* choices[0].message
ChoiceMessage(content, tool_calls) == [content |-> content, tool_calls |-> tool_calls]

ToolIds == <<"call_a", "call_b", "call_c">>
ToolKinds ==
    {[name |-> "fetch_url", arguments |-> UrlArguments(<<" ">> \o PageUrl)],
     [name |-> "run_code", arguments |-> <<"{}">>]}

ToolCallLists ==
    UNION {{[i \in 1..n |-> ToolCall(ToolIds[i], f[i].name, f[i].arguments)] : f \in [1..n -> ToolKinds]}
           : n \in 1..MaxToolCalls}

NullBody == Result("null", None, None)
EmptyObject == Result("object", None, None)
OllamaReply == Result("object", None, Some(<<"hello">>))
TextReply == Result("object", Some(ChoiceMessage(<<" ", "hello", "\n">>, <<>>)), None)
EmptyReply == Result("object", Some(ChoiceMessage(<<" ">>, <<>>)), None)
ToolReply(tool_calls) == Result("object", Some(ChoiceMessage(<<>>, tool_calls)), None)

Returned(text, success) == Some([text |-> text, success |-> success])
Raised(exception) == Some([raised |-> exception])

\* one _do_request of the loop
DoRequest(r) ==
    /\ returned = None
    /\ rounds < MAX_TOOL_ROUNDS
    /\ rounds' = rounds + 1
    /\ requests' = Append(requests, <<url, headers>>)
    /\ response' = Some(r)
    /\ UNCHANGED <<headers, on_tool_call>>
    /\ UNCHANGED <<merge_vars, review_vars, chat_vars>>

\* if not ok: return err_msg, False
RequestFails ==
    /\ DoRequest(Failed)
    /\ returned' = Returned(<<"HTTP error">>, FALSE)
    /\ UNCHANGED <<url, current_messages>>

\* if not choices: the message of the Ollama format, or the format error;
\* result.get raises AttributeError when the body is not an object
NoChoices(r) ==
    /\ r.ok /\ r.choices = None
    /\ DoRequest(r)
    /\ returned' = IF r.body # "object" THEN Raised("AttributeError")
                   ELSE IF r.message # None THEN Returned(r.message[1], TRUE)
                   ELSE Returned(<<"Error: Unexpected API response format.">>, FALSE)
    /\ UNCHANGED <<url, current_messages>>

\* if not tool_calls: return the stripped content
NoToolCalls(r) ==
    /\ r.ok /\ r.choices # None /\ r.choices[1].tool_calls = <<>>
    /\ DoRequest(r)
    /\ returned' = Returned(IF Strip(r.choices[1].content) # <<>>
                            THEN Strip(r.choices[1].content)
                            ELSE <<"Error: Empty assistant response.">>, TRUE)
    /\ UNCHANGED <<url, current_messages>>

\* the model requested tool calls: append the assistant message, run them
HasToolCalls(r) ==
    /\ r.ok /\ r.choices # None /\ r.choices[1].tool_calls # <<>>
    /\ DoRequest(r)
    /\ LET after == RunToolCalls(r.choices[1].tool_calls, 1, on_tool_call, url,
                                 Append(current_messages,
                                        AssistantToolMessage(r.choices[1].content,
                                                             r.choices[1].tool_calls)))
       IN  /\ url' = after.url
           /\ current_messages' = after.current_messages
    /\ UNCHANGED returned

\* the loop ends after _MAX_TOOL_ROUNDS rounds
MaxRoundsReached ==
    /\ returned = None
    /\ rounds >= MAX_TOOL_ROUNDS
    /\ returned' = Returned(<<"Error: Max tool rounds reached.">>, FALSE)
    /\ UNCHANGED <<url, headers, current_messages, rounds, requests, response, on_tool_call>>
    /\ UNCHANGED <<merge_vars, review_vars, chat_vars>>

\* call has been entered: the state before the first round
InitCall ==
    /\ MergeIdle
    /\ ReviewIdle
    /\ ChatIdle
    /\ url = Endpoint
    /\ headers \in {Headers(k) : k \in ApiKeys}
    /\ on_tool_call \in BOOLEAN
    /\ current_messages = CallMessages
    /\ rounds = 0
    /\ requests = <<>>
    /\ response = None
    /\ returned = None

NextCall ==
    \/ RequestFails
    \/ \E r \in {NullBody, EmptyObject, OllamaReply} : NoChoices(r)
    \/ \E r \in {TextReply, EmptyReply} : NoToolCalls(r)
    \/ \E tool_calls \in ToolCallLists : HasToolCalls(ToolReply(tool_calls))
    \/ MaxRoundsReached

SpecCall == InitCall /\ [][NextCall]_vars

-----------------------------------------------------------------------------
(* Properties of the tool-calling loop (SpecCall)                           *)

\* the response carries tool calls
RequestsTools(r) == r.ok /\ r.choices # None /\ r.choices[1].tool_calls # <<>>

ReturnedSuccess == returned # None /\ "success" \in DOMAIN returned[1] /\ returned[1].success
ReturnedFailure == returned # None /\ "success" \in DOMAIN returned[1] /\ ~returned[1].success

\* every assistant message with tool calls is followed by one tool message
\* for each call, in the order of the calls, and no other tool message exists
ToolCallsAnswered(msgs) ==
    /\ \A i \in DOMAIN msgs :
          "tool_calls" \in DOMAIN msgs[i]
          => LET calls == msgs[i].tool_calls
             IN  /\ i + Len(calls) <= Len(msgs)
                 /\ \A k \in 1..Len(calls) :
                       /\ msgs[i + k].role = "tool"
                       /\ msgs[i + k].tool_call_id = calls[k].id
                 /\ i + Len(calls) < Len(msgs) => msgs[i + Len(calls) + 1].role # "tool"
    /\ \A j \in DOMAIN msgs :
          msgs[j].role = "tool"
          => \E i \in 1..(j - 1) :
                "tool_calls" \in DOMAIN msgs[i] /\ j - i <= Len(msgs[i].tool_calls)

(* C23. api.call sends at most MAX_TOOL_ROUNDS requests; it goes on only    *)
(* after a response that requests tools; it returns success at the first    *)
(* response without tool calls, failure at the first failed request, and    *)
(* the failure "Max tool rounds reached" when every response requested      *)
(* tools; and every tool call is answered by one tool message, in order,    *)
(* after the assistant message that requested it.                           *)
C23_CallTerminates ==
    /\ Len(requests) <= MAX_TOOL_ROUNDS
    /\ (returned = None /\ response # None) => RequestsTools(response[1])
    /\ (returned # None /\ response # None)
       => /\ ~response[1].ok => ReturnedFailure
          /\ (response[1].ok /\ ~RequestsTools(response[1])) => ReturnedSuccess
          /\ RequestsTools(response[1])
             => /\ Len(requests) = MAX_TOOL_ROUNDS
                /\ returned = Returned(<<"Error: Max tool rounds reached.">>, FALSE)
    /\ ToolCallsAnswered(current_messages)

(* C28. Every request of one api.call goes to the endpoint URL and carries  *)
(* the headers that the caller passed, whatever tool calls ran before it.   *)
C28_RequestsToEndpoint ==
    \A i \in DOMAIN requests :
        /\ requests[i][1] = Endpoint
        /\ requests[i][2] = requests[1][2]
        /\ \E k \in ApiKeys : requests[i][2] = Headers(k)

=============================================================================
